---------------------------- MODULE Spec2Model ----------------------------
(***************************************************************************)
(* A model of the nodeup runtime manager (crates/nodeup).                   *)
(*                                                                         *)
(* The module holds several specifications over one set of variables:      *)
(*   Spec          the install pipeline and the uninstall path, run by     *)
(*                 concurrent manager processes (installer.rs, store.rs)   *)
(* Each specification moves its own group of variables and keeps the       *)
(* other groups at their initial value.                                    *)
(***************************************************************************)
EXTENDS Integers, Sequences, FiniteSets, TLC

VARIABLES
    \* ---- the install pipeline (installer.rs, store.rs) ----
    pc,          \* pc[p]: the step process p is at
    ver,         \* ver[p]: the canonical version p works on
    held,        \* held[p]: p owns an InstallLock value (its Drop is pending)
    tmp,         \* tmp[p]: the nodeup-extract-* temp directory of p
    expected,    \* expected[p]: the digest p looked up in SHASUMS256.txt
    result,      \* result[p]: what the last operation of p returned
    downloaded,  \* downloaded[p]: p sent the archive request in this operation
    lockFiles,   \* the lock files present in the toolchains directory
    runtimeDir,  \* runtimeDir[v]: the final runtime directory of v
    downloads,   \* downloads[v]: the archive file of v in the downloads directory
    opsStarted,  \* number of operations started so far
    \* ---- the selector grammar (selectors.rs) ----
    selPc,       \* the step of the round trip
    selInput,    \* the selector string given
    selParsed,   \* RuntimeSelector::parse(selInput)
    selId,       \* selParsed.stable_id()
    selReparsed, \* RuntimeSelector::parse(selId)
    \* ---- overrides, settings and the resolver (overrides.rs, resolver.rs) ----
    ovEntries,   \* the entries of the overrides document, in file order
    ovSet,       \* history: ovSet[p] is the selector last set for canonical path p
    defaultSel,  \* settings.default_selector
    linked,      \* the names in settings.linked_runtimes
    lastCall,    \* the resolve call just made: its arguments and its result
    \* ---- the release index (release_index.rs) ----
    cacheFile,   \* the release-index cache file
    now,         \* the wall clock, in seconds since the epoch
    ttl,         \* cache_ttl, in seconds
    fPc,         \* the step fetch_index is at
    fNow,        \* now_epoch_seconds, read once at the start of fetch_index
    fCached,     \* cached, the result of read_cached_index
    fAttempt,    \* attempt, the loop variable of fetch_index_from_network
    httpCalls,   \* history: requests sent by this fetch_index
    fResponses,  \* history: how each request of this fetch_index ended
    fStart,      \* history: the cache file and the clock when fetch_index began
    fResult,     \* what fetch_index returned
    fetches,     \* number of fetch_index calls so far
    \* ---- the persisted documents (store.rs, overrides.rs, release_index.rs) ----
    files,       \* files[f]: the bytes of document f on disk
    wPc,         \* wPc[w]: the step writer w is at
    wFile,       \* wFile[w]: the document w writes
    wDoc,        \* wDoc[w]: the identity of the content w writes
    wTmp,        \* wTmp[w]: the NamedTempFile of w
    wOff,        \* wOff[w]: the file offset of w, in chunks
    observed,    \* what the last reader read
    writes,      \* number of writes started so far
    \* ---- version bumps (cargo-mono versioning.rs) ----
    bPc,         \* the step of the bump
    bCurrent,    \* current, the version to bump
    bLevel,      \* level
    bPreid,      \* preid
    bResult,     \* what bump_version returned
    bumps,       \* number of bump_version calls so far
    \* ---- the workspace graph (cargo-mono workspace.rs) ----
    wsDependencies, \* Workspace::dependencies
    wsDependents, \* Workspace::dependents
    wsCall,      \* the changed_packages call in progress
    tPc,         \* the step of topological_order
    tSelected,   \* selected
    tIndegree,   \* indegree
    tReady,      \* ready
    tOrdered,    \* ordered
    tResult,     \* what topological_order returned
    \* ---- one run of bump or publish (cargo-mono main.rs, commands) ----
    rCommand,    \* the subcommand
    rAllowDirty, \* --allow-dirty
    rBumpDependents, \* --bump-dependents
    rPreidMissing, \* level prerelease without --preid
    rDependencies, \* Workspace::dependencies of the run
    rPublishable, \* the publishable members
    rTargets,    \* the resolved target names
    rTree,       \* the working tree now
    rTreeAtStart, \* the working tree when the run started
    rPc,         \* the step of the run
    rEffects,    \* commands started and manifests written
    rExit,       \* the exit code, -1 while running
    rError,      \* the error kind the run ended with
    pOrder,      \* order
    pIndex,      \* position of the for loop in order
    pAttempts,   \* attempts
    pPublished,  \* published
    pSkipped,    \* skipped
    pFailed,     \* failed
    pLog,        \* the publish attempts made, with their outputs
    bNextVersions, \* the names in next_versions
    \* ---- manifest rewriting (cargo-mono versioning.rs) ----
    mManifests,  \* the manifests on disk, by package
    mOriginal,   \* the manifests before the call
    mBumped,     \* bumped_versions
    mPc,         \* the step of apply_workspace_bump
    mIndex,      \* position of the loop over the packages
    mWrites,     \* the manifests written, in order
    mUpdated,    \* updated_manifests
    mDependencyUpdates, \* dependency_updates
    mResult,     \* what apply_workspace_bump returned
    mCalls,      \* number of calls of apply_workspace_bump so far
    \* ---- self update (nodeup self_cmd.rs) ----
    suSource,    \* the bytes at the update source path
    suTarget,    \* the bytes at the target binary path
    suBackup,    \* the bytes at the backup path
    suStaged,    \* the bytes of the staged temporary file
    suPc,        \* the step of update
    suRuns,      \* number of self update runs so far
    suStatus,    \* the status the last run reported
    suPrevious,  \* status and source of the run before
    suSourceAtStart, \* the source when the run started
    suTargetAtStart, \* the target when the run started
    suTargetOps, \* the operations of the run that changed the target
    \* ---- self uninstall (nodeup self_cmd.rs) ----
    unPaths,     \* the normalized path of each root
    unDirs,      \* the directory listing at each root path
    unPc,        \* the step of uninstall
    unTargets,   \* deletion_targets still to remove
    unRemoved,   \* removed_paths
    unStatus,    \* the status or error kind of the last run
    unDirsAtEntry, \* the listings when uninstall was entered
    unRuns,      \* number of self uninstall runs so far
    \* ---- self upgrade-data (nodeup self_cmd.rs) ----
    udDocs,      \* the settings and the overrides file
    udPc,        \* the step of upgrade_data
    udIndex,     \* the document to migrate next
    udStatus,    \* the status or error kind of each document
    udResult,    \* the status or error kind of the last run
    udDocsAtStart, \* the files when the run started
    udRuns,      \* number of upgrade-data runs so far
    \* ---- toolchain uninstall (nodeup commands/toolchain.rs) ----
    tcDefault,   \* default_selector of the settings
    tcOverrides, \* the selectors of the override entries
    tcTracked,   \* tracked_selectors of the settings
    tcRuntimes,  \* the versions with a runtime directory
    tcPc,        \* the step of uninstall
    tcRequested, \* the selectors of the request
    tcUnique,    \* unique_versions still to remove
    tcStatus,    \* the status or error kind of the last run
    tcSaves,     \* the writes of the settings in the run
    tcRuntimesAtStart, \* the runtime directories when the run started
    tcRuns,      \* number of toolchain uninstall runs so far
    \* ---- the settings document (nodeup store.rs, commands) ----
    stFile,      \* the settings file
    stOps,       \* number of commands so far
    stLast,      \* the last command
    \* ---- delegated processes (nodeup process.rs, dispatch.rs, run_cmd.rs) ----
    dgEntry,     \* how the manager was started: dispatch or run
    dgPc,        \* the step of the manager process
    dgStatus,    \* the ExitStatus of the child
    dgLogged,    \* the termination run_command logged
    dgReturn,    \* what run returned to main
    dgExit,      \* the exit code of the manager
    dgRuns       \* number of manager processes so far

installVars == <<pc, ver, held, tmp, expected, result, downloaded,
                 lockFiles, runtimeDir, downloads, opsStarted>>

selVars == <<selPc, selInput, selParsed, selId, selReparsed>>

resolveVars == <<ovEntries, ovSet, defaultSel, linked, lastCall>>

fetchVars == <<cacheFile, now, ttl, fPc, fNow, fCached, fAttempt, httpCalls,
               fResponses, fStart, fResult, fetches>>

docVars == <<files, wPc, wFile, wDoc, wTmp, wOff, observed, writes>>

bumpVars == <<bPc, bCurrent, bLevel, bPreid, bResult, bumps>>

wsVars == <<wsDependencies, wsDependents, wsCall, tPc, tSelected, tIndegree,
            tReady, tOrdered, tResult>>

runVars == <<rCommand, rAllowDirty, rBumpDependents, rPreidMissing,
             rDependencies, rPublishable, rTargets, rTree, rTreeAtStart, rPc,
             rEffects, rExit, rError, pOrder, pIndex, pAttempts, pPublished,
             pSkipped, pFailed, pLog, bNextVersions>>

manifestVars == <<mManifests, mOriginal, mBumped, mPc, mIndex, mWrites,
                  mUpdated, mDependencyUpdates, mResult, mCalls>>

selfVars == <<suSource, suTarget, suBackup, suStaged, suPc, suRuns, suStatus,
              suPrevious, suSourceAtStart, suTargetAtStart, suTargetOps>>

uninstallVars == <<unPaths, unDirs, unPc, unTargets, unRemoved, unStatus,
                   unDirsAtEntry, unRuns>>

upgradeVars == <<udDocs, udPc, udIndex, udStatus, udResult, udDocsAtStart,
                 udRuns>>

toolchainVars == <<tcDefault, tcOverrides, tcTracked, tcRuntimes, tcPc,
                   tcRequested, tcUnique, tcStatus, tcSaves,
                   tcRuntimesAtStart, tcRuns>>

settingsVars == <<stFile, stOps, stLast>>

delegateVars == <<dgEntry, dgPc, dgStatus, dgLogged, dgReturn, dgExit,
                  dgRuns>>

vars == <<installVars, selVars, resolveVars, fetchVars, docVars, bumpVars,
          wsVars, runVars, manifestVars, selfVars, uninstallVars,
          upgradeVars, toolchainVars, settingsVars, delegateVars>>

-----------------------------------------------------------------------------
(* Bounds *)

\* operations (installs, uninstalls) started in one behaviour
MaxOps == 3

\* length of the selector strings that are enumerated in full
MaxLen == 6

\* entries the overrides document holds at most
MaxEntries == 3

\* the last second of the clock
MaxNow == 3

\* the largest cache TTL, in seconds
MaxTtl == 2

\* fetch_index calls in one behaviour
MaxFetches == 2

\* document writes started in one behaviour
MaxWrites == 2

\* write system calls that one document takes
DocChunks == 2


\* bump_version calls chained in one behaviour
MaxBumps == 2


\* changed paths passed to one changed_packages call
MaxChangedPaths == 2


\* dependency entries in one manifest
MaxManifestEntries == 3

\* calls of apply_workspace_bump in one behaviour
MaxApplyCalls == 2


\* self update runs in one behaviour
MaxSelfUpdates == 3


\* self uninstall runs in one behaviour
MaxUninstalls == 2


\* self upgrade-data runs in one behaviour
MaxUpgradeRuns == 2


\* toolchain uninstall runs in one behaviour
MaxToolchainRuns == 2

\* selectors in one toolchain uninstall request
MaxUninstallArgs == 2


\* commands that write the settings in one behaviour
MaxSettingsOps == 3


\* manager processes in one behaviour
MaxDelegations == 2

\* the highest exit code of a child
MaxExitCode == 255

\* the highest signal number of the samples
MaxSignal == 15


-----------------------------------------------------------------------------
(* Strings are sequences of one-character strings.                           *)

\* the characters of the model in ASCII order; a character's rank is its
\* position, so comparing ranks is comparing bytes
AsciiOrder == <<" ", "+", "-", ".", "/",
                "0", "1", "2", "3", "4", "5", "6", "7", "8", "9", "_",
                "a", "b", "c", "d", "e", "f", "g", "h", "i", "j", "k", "l", "m",
                "n", "o", "p", "q", "r", "s", "t", "u", "v", "w", "x", "y", "z">>

CharRank(c) == CHOOSE i \in DOMAIN AsciiOrder : AsciiOrder[i] = c

Digit == {"0", "1", "2", "3", "4", "5", "6", "7", "8", "9"}

Letter == {"a", "b", "c", "d", "e", "f", "g", "h", "i", "j", "k", "l", "m",
           "n", "o", "p", "q", "r", "s", "t", "u", "v", "w", "x", "y", "z"}

\* char::is_ascii_alphanumeric
is_ascii_alphanumeric(c) == c \in Digit \cup Letter

\* the index of the first c in s, or 0
IndexOf(s, c) ==
    IF \E i \in DOMAIN s : s[i] = c
      THEN CHOOSE i \in DOMAIN s : s[i] = c /\ \A j \in 1..(i - 1) : s[j] # c
      ELSE 0

Drop(s, n) == SubSeq(s, n + 1, Len(s))

Take(s, n) == SubSeq(s, 1, n)

\* str::split(c): the pieces between the occurrences of c
RECURSIVE SplitOn(_, _)
SplitOn(s, c) ==
    LET i == IndexOf(s, c) IN
      IF i = 0 THEN <<s>> ELSE <<Take(s, i - 1)>> \o SplitOn(Drop(s, i), c)

\* str::trim
RECURSIVE trim_start(_)
trim_start(s) ==
    IF s # <<>> /\ Head(s) = " " THEN trim_start(Tail(s)) ELSE s

RECURSIVE trim_end(_)
trim_end(s) ==
    IF s # <<>> /\ s[Len(s)] = " " THEN trim_end(Take(s, Len(s) - 1)) ELSE s

trim(s) == trim_end(trim_start(s))

\* a decimal numeral to its value, and back
RECURSIVE DigitsToNat(_)
DigitsToNat(ds) ==
    IF ds = <<>> THEN 0
    ELSE DigitsToNat(Take(ds, Len(ds) - 1)) * 10
           + (CharRank(ds[Len(ds)]) - CharRank("0"))

RECURSIVE NatToDigits(_)
NatToDigits(n) ==
    IF n < 10 THEN <<AsciiOrder[CharRank("0") + n]>>
    ELSE NatToDigits(n \div 10) \o <<AsciiOrder[CharRank("0") + (n % 10)]>>

Err(kind) == [ok |-> FALSE, kind |-> kind]

Ok(v) == [ok |-> TRUE, value |-> v]

-----------------------------------------------------------------------------
(* The selector grammar: RuntimeSelector::parse and stable_id.               *)

\* semver: a numeric identifier is a numeral without leading zeros
IsNumeric(s) ==
    /\ s # <<>>
    /\ \A i \in DOMAIN s : s[i] \in Digit
    /\ (Len(s) > 1 => s[1] # "0")

IsIdentChars(s) ==
    /\ s # <<>>
    /\ \A i \in DOMAIN s : is_ascii_alphanumeric(s[i]) \/ s[i] = "-"

\* semver: a prerelease identifier; one made of digits only is numeric
IsPreIdent(s) ==
    /\ IsIdentChars(s)
    /\ (\A i \in DOMAIN s : s[i] \in Digit) => IsNumeric(s)

\* semver: every identifier of a prerelease
AllPreIdent(pieces) == \A i \in DOMAIN pieces : IsPreIdent(pieces[i])

\* semver: every identifier of the build metadata
AllIdentChars(pieces) == \A i \in DOMAIN pieces : IsIdentChars(pieces[i])

\* semver::Version::parse, once the string is cut at '+' and at '-'
Version_of_parts(nums, has_pre, pre, has_build, build) ==
    IF /\ Len(nums) = 3
       /\ \A i \in 1..3 : IsNumeric(nums[i])
       /\ (has_pre => AllPreIdent(SplitOn(pre, ".")))
       /\ (has_build => AllIdentChars(SplitOn(build, ".")))
      THEN Ok([major |-> DigitsToNat(nums[1]),
               minor |-> DigitsToNat(nums[2]),
               patch |-> DigitsToNat(nums[3]),
               pre   |-> pre,
               build |-> build])
      ELSE Err("InvalidInput")

\* semver::Version::parse: the prerelease starts at the first '-' of the front
Version_cut_pre(front, dash, has_build, build) ==
    Version_of_parts(
      SplitOn(IF dash = 0 THEN front ELSE Take(front, dash - 1), "."),
      dash # 0, IF dash = 0 THEN <<>> ELSE Drop(front, dash),
      has_build, build)

\* semver::Version::parse: the build metadata starts at the first '+'
Version_cut_build(s, plus) ==
    Version_cut_pre(
      IF plus = 0 THEN s ELSE Take(s, plus - 1),
      IndexOf(IF plus = 0 THEN s ELSE Take(s, plus - 1), "-"),
      plus # 0, IF plus = 0 THEN <<>> ELSE Drop(s, plus))

\* semver::Version::parse: MAJOR.MINOR.PATCH[-pre][+build], strict
Version_parse(s) == Version_cut_build(s, IndexOf(s, "+"))

\* a Display that leaves the prerelease and build parts out
Version_to_string_core(v) ==
    NatToDigits(v.major) \o <<".">> \o NatToDigits(v.minor) \o <<".">>
      \o NatToDigits(v.patch)

\* Display for semver::Version, used by format!("v{version}")
Version_to_string(v) ==
    NatToDigits(v.major) \o <<".">> \o NatToDigits(v.minor) \o <<".">>
      \o NatToDigits(v.patch)
      \o (IF v.pre = <<>> THEN <<>> ELSE <<"-">> \o v.pre)
      \o (IF v.build = <<>> THEN <<>> ELSE <<"+">> \o v.build)

\* is_valid_linked_name
is_valid_linked_name(input) ==
    /\ input # <<>>
    /\ is_ascii_alphanumeric(input[1])
    /\ \A i \in 2..Len(input) :
         is_ascii_alphanumeric(input[i]) \/ input[i] = "-" \/ input[i] = "_"

SelVersion(v) == [kind |-> "Version", version |-> v]

SelChannel(ch) == [kind |-> "Channel", channel |-> ch]

SelLinkedName(n) == [kind |-> "LinkedName", name |-> n]

\* RuntimeSelector::parse, after the channel keywords: a version with the v
\* stripped, a version as it stands, a linked name
parse_version_or_name(normalized, stripped, bare) ==
    IF stripped.ok THEN Ok(SelVersion(stripped.value))
    ELSE IF bare.ok THEN Ok(SelVersion(bare.value))
    ELSE IF ~is_valid_linked_name(normalized) THEN Err("InvalidInput")
    ELSE Ok(SelLinkedName(normalized))

\* RuntimeSelector::parse, on the trimmed input
parse_normalized(normalized) ==
    IF normalized = <<>> THEN Err("InvalidInput")
    ELSE IF normalized = <<"l", "t", "s">> THEN Ok(SelChannel("Lts"))
    ELSE IF normalized = <<"c", "u", "r", "r", "e", "n", "t">>
      THEN Ok(SelChannel("Current"))
    ELSE IF normalized = <<"l", "a", "t", "e", "s", "t">>
      THEN Ok(SelChannel("Latest"))
    ELSE parse_version_or_name(
           normalized,
           IF Head(normalized) = "v" THEN Version_parse(Tail(normalized))
                                     ELSE Err("InvalidInput"),
           Version_parse(normalized))

\* RuntimeSelector::parse
parse(input) == parse_normalized(trim(input))

\* Display for NodeupChannel
Channel_to_string(ch) ==
    CASE ch = "Lts" -> <<"l", "t", "s">>
      [] ch = "Current" -> <<"c", "u", "r", "r", "e", "n", "t">>
      [] ch = "Latest" -> <<"l", "a", "t", "e", "s", "t">>

\* an identifier that keeps only MAJOR.MINOR.PATCH of a version
stable_id_core(sel) ==
    CASE sel.kind = "Version" -> <<"v">> \o Version_to_string_core(sel.version)
      [] sel.kind = "Channel" -> Channel_to_string(sel.channel)
      [] sel.kind = "LinkedName" -> sel.name

\* RuntimeSelector::stable_id
stable_id(sel) ==
    CASE sel.kind = "Version" -> <<"v">> \o Version_to_string(sel.version)
      [] sel.kind = "Channel" -> Channel_to_string(sel.channel)
      [] sel.kind = "LinkedName" -> sel.name

\* the selector strings the round trip is run on: every string up to MaxLen
\* over a small alphabet, and longer samples of each form
SelAlphabet == {"v", "a", "1", "0", ".", "-", " "}

ExtraInputs ==
    { <<"l", "t", "s">>,
      <<" ", "l", "t", "s", " ">>,
      <<"c", "u", "r", "r", "e", "n", "t">>,
      <<"l", "a", "t", "e", "s", "t">>,
      <<"l", "t", "s", "x">>,
      <<"v", "l", "t", "s">>,
      <<"m", "y", "-", "n", "o", "d", "e">>,
      <<"m", "y", "_", "n", "o", "d", "e">>,
      <<"_", "n", "o", "d", "e">>,
      <<"2", "2", ".", "x">>,
      <<"v", "2", "2", ".", "1", ".", "0">>,
      <<"2", "2", ".", "1", ".", "0">>,
      <<"v", "v", "1", ".", "2", ".", "3">>,
      <<"v", "1", ".", "2", ".", "3", "-", "r", "c", ".", "1">>,
      <<"1", ".", "2", ".", "3", "-", "r", "c", ".", "0", "1">>,
      <<"1", ".", "2", ".", "3", "-", "0", ".", "a">>,
      <<"1", ".", "2", ".", "3", "+", "b", ".", "0", "1">>,
      <<"v", "1", ".", "2", ".", "3", "-", "a", "+", "b", "-", "c">>,
      <<"1", ".", "2", ".", "3", "+">>,
      <<" ", "v", "1", "0", ".", "0", ".", "1", " ">> }

SelectorInputs ==
    UNION {[1..n -> SelAlphabet] : n \in 0..MaxLen} \cup ExtraInputs

NoResult == Err("none")

SelInit ==
    /\ selPc = "parse"
    /\ selInput \in SelectorInputs
    /\ selParsed = NoResult
    /\ selId = <<>>
    /\ selReparsed = NoResult

\* the selector variables outside the selector specification
SelIdle ==
    /\ selPc = "off"
    /\ selInput = <<>>
    /\ selParsed = NoResult
    /\ selId = <<>>
    /\ selReparsed = NoResult

SelParse ==
    /\ selPc = "parse"
    /\ selParsed' = parse(selInput)
    /\ selPc' = IF selParsed'.ok THEN "stable_id" ELSE "done"
    /\ UNCHANGED <<selInput, selId, selReparsed>>

SelStableId ==
    /\ selPc = "stable_id"
    /\ selId' = stable_id(selParsed.value)
    /\ selPc' = "reparse"
    /\ UNCHANGED <<selInput, selParsed, selReparsed>>

SelReparse ==
    /\ selPc = "reparse"
    /\ selReparsed' = parse(selId)
    /\ selPc' = "done"
    /\ UNCHANGED <<selInput, selParsed, selId>>

SelNext ==
    \/ SelParse
    \/ SelStableId
    \/ SelReparse

-----------------------------------------------------------------------------
(* Overrides and the resolver: OverrideStore and RuntimeResolver.            *)
(* A path is the sequence of its components; the overrides document stores  *)
(* it as a string.                                                          *)

\* the directory names of the model, as strings
CompNames == {<<"a">>, <<"a", "b">>}

\* the canonical absolute paths of the model: /, /a, /ab, /a/a and /a/ab
Paths ==
    {<<>>} \cup {<<c>> : c \in CompNames}
           \cup {<< <<"a">>, c >> : c \in CompNames}

\* the working directory of the calling process
Cwd == << <<"a">> >>

\* the paths a caller passes: absolute, or relative to the working directory
PathInputs ==
    {[abs |-> TRUE, comps |-> p] : p \in Paths}
      \cup {[abs |-> FALSE, comps |-> p] : p \in {<<>>} \cup {<<c>> : c \in CompNames}}

\* canonical_or_absolute_path, on a file system without symbolic links
canonical_or_absolute_path(path) ==
    IF path.abs THEN path.comps ELSE Cwd \o path.comps

\* Path::to_str: the components joined with the separator
RECURSIVE path_to_string(_)
path_to_string(comps) ==
    IF comps = <<>> THEN <<"/">>
    ELSE IF Len(comps) = 1 THEN <<"/">> \o comps[1]
    ELSE path_to_string(Take(comps, Len(comps) - 1)) \o <<"/">> \o comps[Len(comps)]

\* PathBuf::from: the components of a path string
path_from_string(str) ==
    SelectSeq(SplitOn(str, "/"), LAMBDA c : c # <<>>)

\* Path::starts_with: whole components
starts_with(path, base) ==
    /\ Len(base) <= Len(path)
    /\ Take(path, Len(base)) = base

\* Ord for String: byte-wise lexicographic order
RECURSIVE StringLess(_, _)
StringLess(x, y) ==
    IF y = <<>> THEN FALSE
    ELSE IF x = <<>> THEN TRUE
    ELSE IF Head(x) # Head(y) THEN CharRank(Head(x)) < CharRank(Head(y))
    ELSE StringLess(Tail(x), Tail(y))

\* entries.sort_by_key(|entry| entry.path.clone()): insertion, stable
RECURSIVE InsertByPath(_, _)
InsertByPath(sorted, e) ==
    IF sorted = <<>> THEN <<e>>
    ELSE IF StringLess(e.path, Head(sorted).path)
      THEN <<e>> \o sorted
      ELSE <<Head(sorted)>> \o InsertByPath(Tail(sorted), e)

RECURSIVE SortByPath(_)
SortByPath(entries) ==
    IF entries = <<>> THEN <<>>
    ELSE InsertByPath(SortByPath(Take(entries, Len(entries) - 1)),
                      entries[Len(entries)])

\* entries.sort_by_key(|entry| Reverse(entry.path.len())): insertion, stable
RECURSIVE InsertByLenDesc(_, _)
InsertByLenDesc(sorted, e) ==
    IF sorted = <<>> THEN <<e>>
    ELSE IF Len(e.path) > Len(Head(sorted).path)
      THEN <<e>> \o sorted
      ELSE <<Head(sorted)>> \o InsertByLenDesc(Tail(sorted), e)

RECURSIVE SortByLenDesc(_)
SortByLenDesc(entries) ==
    IF entries = <<>> THEN <<>>
    ELSE InsertByLenDesc(SortByLenDesc(Take(entries, Len(entries) - 1)),
                         entries[Len(entries)])

OverrideEntry(path, selector) == [path |-> path, selector |-> selector]

None == [some |-> FALSE]

Some(x) == [some |-> TRUE, value |-> x]

\* the first entry of a sequence that the path starts with
FirstMatch(entries, absolute) ==
    LET hits == SelectSeq(entries,
                  LAMBDA e : starts_with(absolute, path_from_string(e.path)))
    IN  IF hits = <<>> THEN None ELSE Some(Head(hits))

\* a lookup that takes the entries in file order
resolve_for_path_unsorted(entries, path) ==
    FirstMatch(entries, canonical_or_absolute_path(path))

\* OverrideStore::resolve_for_path
resolve_for_path(entries, path) ==
    FirstMatch(SortByLenDesc(entries), canonical_or_absolute_path(path))

\* a set that keeps the entry the path already has
set_appending(entries, path, selector) ==
    SortByPath(Append(entries,
                      OverrideEntry(path_to_string(canonical_or_absolute_path(path)),
                                    selector)))

\* OverrideStore::set, the document it saves
set(entries, path, selector) ==
    LET absolute_path == path_to_string(canonical_or_absolute_path(path))
        retained == SelectSeq(entries, LAMBDA e : e.path # absolute_path)
    IN  SortByPath(Append(retained, OverrideEntry(absolute_path, selector)))

\* OverrideStore::unset(path, false), the document it saves
unset(entries, path) ==
    LET target == path_to_string(canonical_or_absolute_path(path))
    IN  SelectSeq(entries, LAMBDA e : e.path # target)

\* OverrideStore::unset(_, true), given the paths that no longer exist
unset_nonexistent(entries, gone) ==
    SelectSeq(entries, LAMBDA e : path_from_string(e.path) \notin gone)

\* version strings of the model
V22 == <<"v", "2", "2", ".", "1", ".", "0">>

V24 == <<"v", "2", "4", ".", "0", ".", "0">>

\* the selectors the override commands store (stable identifiers)
OverrideSelectors == {<<"l", "t", "s">>, V22}

\* the selector strings a caller passes, the last one malformed
ExplicitSelectors ==
    {Tail(V22), <<"m", "y", "-", "n", "o", "d", "e">>, <<"2", "2", ".", "x">>}

\* the selector strings the default command stores
DefaultSelectors == {V24, <<"c", "u", "r", "r", "e", "n", "t">>}

LinkNames == {<<"m", "y", "-", "n", "o", "d", "e">>}

\* ReleaseEntry, its lts field a JSON value
ReleaseEntry(version, lts) == [version |-> version, lts |-> lts]

JsonFalse == [type |-> "bool", bool |-> FALSE, str |-> ""]

JsonString(x) == [type |-> "string", bool |-> FALSE, str |-> x]

\* ReleaseEntry::is_lts
is_lts(entry) ==
    (entry.lts.type = "bool" /\ entry.lts.bool) \/ entry.lts.type = "string"

\* what fetch_index can give a caller: an error, or an index, newest first
IndexOutcomes ==
    { Err("Network"),
      Ok(<<>>),
      Ok(<<ReleaseEntry(V24, JsonFalse)>>),
      Ok(<<ReleaseEntry(V24, JsonFalse), ReleaseEntry(V22, JsonString("Jod"))>>) }

\* ReleaseIndexClient::resolve_channel, given the outcome of fetch_index
resolve_channel(channel, index) ==
    IF ~index.ok THEN index
    ELSE LET releases == index.value
             lts == SelectSeq(releases, is_lts)
         IN  IF channel \in {"Latest", "Current"}
               THEN IF releases = <<>> THEN Err("NotFound")
                    ELSE Ok(Head(releases).version)
               ELSE IF lts = <<>> THEN Err("NotFound")
                    ELSE Ok(Head(lts).version)

\* normalize_version
normalize_version(version) ==
    IF version # <<>> /\ Head(version) = "v" THEN version ELSE <<"v">> \o version

\* resolve_selector_with_source, the Channel arm: the resolved version
channel_target(resolved) ==
    IF resolved.ok THEN Ok([kind |-> "Version", id |-> resolved.value])
    ELSE resolved

\* resolve_selector_with_source, the match on the selector
resolve_target(selector, index, names) ==
    CASE selector.kind = "Version" ->
           Ok([kind |-> "Version",
               id |-> normalize_version(Version_to_string(selector.version))])
      [] selector.kind = "Channel" ->
           channel_target(resolve_channel(selector.channel, index))
      [] selector.kind = "LinkedName" ->
           IF selector.name \in names
             THEN Ok([kind |-> "LinkedPath", id |-> selector.name])
             ELSE Err("NotFound")

\* resolve_selector_with_source, the ResolvedRuntime it returns
resolved_runtime(source, selector, target) ==
    IF ~target.ok THEN target
    ELSE Ok([source |-> source, selector |-> selector, target |-> target.value])

\* resolve_selector_with_source, after RuntimeSelector::parse
resolve_parsed(parsed, source, index, names) ==
    IF ~parsed.ok THEN parsed
    ELSE resolved_runtime(source, parsed.value,
                          resolve_target(parsed.value, index, names))

\* RuntimeResolver::resolve_selector_with_source
resolve_selector_with_source(selector_value, source, index, names) ==
    resolve_parsed(parse(selector_value), source, index, names)

\* resolve_with_precedence, given the result of the override lookup
resolve_levels(explicit_selector, override, default, index, names) ==
    IF explicit_selector.some
      THEN resolve_selector_with_source(explicit_selector.value, "Explicit",
                                        index, names)
    ELSE IF override.some
      THEN resolve_selector_with_source(override.value.selector, "Override",
                                        index, names)
    ELSE IF default.some
      THEN resolve_selector_with_source(default.value, "Default", index, names)
    ELSE Err("NotFound")

\* the levels with the default consulted before the override
resolve_levels_default_first(explicit_selector, override, default, index, names) ==
    IF explicit_selector.some
      THEN resolve_selector_with_source(explicit_selector.value, "Explicit",
                                        index, names)
    ELSE IF default.some
      THEN resolve_selector_with_source(default.value, "Default", index, names)
    ELSE IF override.some
      THEN resolve_selector_with_source(override.value.selector, "Override",
                                        index, names)
    ELSE Err("NotFound")

\* a chain that consults the default before the overrides
resolve_default_first(explicit_selector, path, entries, default, index, names) ==
    resolve_levels_default_first(explicit_selector,
                                 resolve_for_path(entries, path),
                                 default, index, names)

\* RuntimeResolver::resolve_with_precedence
resolve_with_precedence(explicit_selector, path, entries, default, index, names) ==
    resolve_levels(explicit_selector, resolve_for_path(entries, path),
                   default, index, names)

NoCall == [op |-> "none"]

\* OverrideStore::set: load, replace the entry of the path, sort, save
OverrideSet(path, selector) ==
    /\ lastCall = NoCall
    /\ \/ Len(ovEntries) < MaxEntries
       \/ \E i \in DOMAIN ovEntries :
            ovEntries[i].path = path_to_string(canonical_or_absolute_path(path))
    /\ ovEntries' = set(ovEntries, path, selector)
    /\ ovSet' = [ovSet EXCEPT ![canonical_or_absolute_path(path)] = Some(selector)]
    /\ lastCall' = NoCall
    /\ UNCHANGED <<defaultSel, linked>>

\* OverrideStore::unset with a path (or the working directory)
OverrideUnset(path) ==
    /\ lastCall = NoCall
    /\ ovEntries' = unset(ovEntries, path)
    /\ ovSet' = [ovSet EXCEPT ![canonical_or_absolute_path(path)] = None]
    /\ lastCall' = NoCall
    /\ UNCHANGED <<defaultSel, linked>>

\* OverrideStore::unset with remove_nonexistent: the entries whose directory
\* is gone are removed
OverrideUnsetNonexistent(gone) ==
    /\ lastCall = NoCall
    /\ \A p \in gone :
         \E i \in DOMAIN ovEntries : path_from_string(ovEntries[i].path) = p
    /\ ovEntries' = unset_nonexistent(ovEntries, gone)
    /\ ovSet' = [p \in Paths |-> IF p \in gone THEN None ELSE ovSet[p]]
    /\ lastCall' = NoCall
    /\ UNCHANGED <<defaultSel, linked>>

\* the default command: the selector resolves, then settings are saved
SetDefault(selector, index) ==
    /\ lastCall = NoCall
    /\ resolve_selector_with_source(selector, "Explicit", index, linked).ok
    /\ defaultSel' = Some(selector)
    /\ lastCall' = NoCall
    /\ UNCHANGED <<ovEntries, ovSet, linked>>

\* toolchain link: the name is recorded in settings.linked_runtimes
LinkRuntime(name) ==
    /\ lastCall = NoCall
    /\ is_valid_linked_name(name)
    /\ name \notin linked
    /\ linked' = linked \cup {name}
    /\ lastCall' = NoCall
    /\ UNCHANGED <<ovEntries, ovSet, defaultSel>>

\* a call of OverrideStore::resolve_for_path
CallResolveForPath(path) ==
    /\ lastCall = NoCall
    /\ lastCall' = [op |-> "resolve_for_path", path |-> path,
                    result |-> resolve_for_path(ovEntries, path)]
    /\ UNCHANGED <<ovEntries, ovSet, defaultSel, linked>>

\* a call of RuntimeResolver::resolve_with_precedence
CallResolveWithPrecedence(explicit_selector, path, index) ==
    /\ lastCall = NoCall
    /\ lastCall' = [op |-> "resolve_with_precedence",
                    explicit |-> explicit_selector, path |-> path,
                    index |-> index,
                    result |-> resolve_with_precedence(explicit_selector, path,
                                 ovEntries, defaultSel, index, linked)]
    /\ UNCHANGED <<ovEntries, ovSet, defaultSel, linked>>

\* the call returns to its caller
CallReturn ==
    /\ lastCall # NoCall
    /\ lastCall' = NoCall
    /\ UNCHANGED <<ovEntries, ovSet, defaultSel, linked>>

ResolveInit ==
    /\ ovEntries = <<>>
    /\ ovSet = [p \in Paths |-> None]
    /\ defaultSel = None
    /\ linked = {}
    /\ lastCall = NoCall

\* the resolver variables outside the resolver specification
ResolveIdle == ResolveInit

ResolveNext ==
    \/ \E path \in PathInputs, selector \in OverrideSelectors :
         OverrideSet(path, selector)
    \/ \E path \in PathInputs : OverrideUnset(path)
    \/ \E gone \in SUBSET Paths : OverrideUnsetNonexistent(gone)
    \/ \E selector \in DefaultSelectors, index \in IndexOutcomes :
         SetDefault(selector, index)
    \/ \E name \in LinkNames : LinkRuntime(name)
    \/ \E path \in PathInputs : CallResolveForPath(path)
    \/ \E explicit_selector \in {None} \cup {Some(x) : x \in ExplicitSelectors},
          path \in PathInputs, index \in IndexOutcomes :
         CallResolveWithPrecedence(explicit_selector, path, index)
    \/ CallReturn

-----------------------------------------------------------------------------
(* The release index: ReleaseIndexClient::fetch_index.                       *)

MAX_RETRIES == 3

RELEASE_INDEX_CACHE_SCHEMA_VERSION == 1

\* two indexes, as lists of entries
IndexOld == <<ReleaseEntry(V22, JsonString("Jod"))>>

IndexNew == <<ReleaseEntry(V24, JsonFalse), ReleaseEntry(V22, JsonString("Jod"))>>

NoCacheFile == [exists |-> FALSE, decodes |-> FALSE, schema_version |-> 0,
                fetched_at_epoch_seconds |-> 0, entries |-> <<>>]

\* a cache file whose content does not decode as ReleaseIndexCachePayload
GarbledCacheFile == [exists |-> TRUE, decodes |-> FALSE, schema_version |-> 0,
                     fetched_at_epoch_seconds |-> 0, entries |-> <<>>]

\* ReleaseIndexCachePayload, serialized
CachePayload(schema, fetched_at, entries) ==
    [exists |-> TRUE, decodes |-> TRUE, schema_version |-> schema,
     fetched_at_epoch_seconds |-> fetched_at, entries |-> entries]

\* the cache files a fetch can find on disk
CacheFiles ==
    {NoCacheFile, GarbledCacheFile}
      \cup {CachePayload(sv, t, e) :
              sv \in {RELEASE_INDEX_CACHE_SCHEMA_VERSION,
                      RELEASE_INDEX_CACHE_SCHEMA_VERSION + 1},
              t \in 0..(MaxNow + 1),
              e \in {IndexOld}}

\* CachedReleaseIndex
CachedReleaseIndex(entries, age) == [entries |-> entries, age_seconds |-> age]

\* a read that takes every payload that decodes
read_cached_index_unchecked(file, now_epoch_seconds) ==
    IF ~file.exists \/ ~file.decodes THEN None
    ELSE Some(CachedReleaseIndex(file.entries, 0))

\* ReleaseIndexClient::read_cached_index
read_cached_index(file, now_epoch_seconds) ==
    IF ~file.exists THEN None
    ELSE IF ~file.decodes THEN None
    ELSE IF file.schema_version # RELEASE_INDEX_CACHE_SCHEMA_VERSION THEN None
    ELSE IF file.fetched_at_epoch_seconds > now_epoch_seconds THEN None
    ELSE Some(CachedReleaseIndex(file.entries,
                now_epoch_seconds - file.fetched_at_epoch_seconds))

\* a hit only when the cache is younger than the TTL
is_cache_hit_strict(cached, ttl_seconds) ==
    cached.some /\ cached.value.age_seconds < ttl_seconds

\* fetch_index, the guard of the first match arm
is_cache_hit(cached, ttl_seconds) ==
    cached.some /\ cached.value.age_seconds <= ttl_seconds

\* a refresh failure that is always surfaced
refresh_failed_no_fallback(cached, error) == error

\* fetch_index, the Err arm: the stale cache when there is one
refresh_failed(cached, error) ==
    IF cached.some THEN Ok(cached.value.entries) ELSE error

\* a cache written without the time of the fetch
write_cache_unstamped(entries, fetched_at_epoch_seconds) ==
    CachePayload(RELEASE_INDEX_CACHE_SCHEMA_VERSION, 0, entries)

\* ReleaseIndexClient::write_cache: the file after the rename
write_cache(entries, fetched_at_epoch_seconds) ==
    CachePayload(RELEASE_INDEX_CACHE_SCHEMA_VERSION, fetched_at_epoch_seconds,
                 entries)

\* how one request of fetch_index_from_network can end
Responses == {"ok", "bad_status", "transport_error", "bad_body"}

\* the start of fetch_index: the clock, the cache, and the hit
FetchStart ==
    /\ fPc \in {"idle", "done"}
    /\ fetches < MaxFetches
    /\ fetches' = fetches + 1
    /\ fNow' = now
    /\ fStart' = [cache |-> cacheFile, now |-> now]
    /\ fCached' = read_cached_index(cacheFile, now)
    /\ httpCalls' = 0
    /\ fResponses' = <<>>
    /\ IF is_cache_hit(fCached', ttl)
         THEN /\ fPc' = "done"
              /\ fResult' = Ok(fCached'.value.entries)
              /\ fAttempt' = 0
         ELSE /\ fPc' = "network"
              /\ fResult' = NoResult
              /\ fAttempt' = 1
    /\ UNCHANGED <<cacheFile, now, ttl>>

\* one turn of the loop of fetch_index_from_network, and what fetch_index
\* does when the loop returns
FetchAttempt(response, entries, cache_written) ==
    /\ fPc = "network"
    /\ httpCalls' = httpCalls + 1
    /\ fResponses' = Append(fResponses, response)
    /\ IF response = "ok"
         THEN \* the body decodes; write_cache, whose failure is only logged
              /\ fResult' = Ok(entries)
              /\ cacheFile' =
                   IF cache_written
                     THEN write_cache(entries, fNow)
                     ELSE cacheFile
              /\ fPc' = "done"
              /\ UNCHANGED fAttempt
         ELSE IF response = "bad_body" \/ fAttempt = MAX_RETRIES
           THEN /\ fResult' = refresh_failed(fCached, Err("Network"))
                /\ fPc' = "done"
                /\ UNCHANGED <<cacheFile, fAttempt>>
           ELSE \* thread::sleep, then the next attempt
                /\ fAttempt' = fAttempt + 1
                /\ UNCHANGED <<cacheFile, fPc, fResult>>
    /\ UNCHANGED <<now, ttl, fNow, fCached, fStart, fetches>>

\* a second passes
Tick ==
    /\ now < MaxNow
    /\ now' = now + 1
    /\ UNCHANGED <<cacheFile, ttl, fPc, fNow, fCached, fAttempt, httpCalls,
                   fResponses, fStart, fResult, fetches>>

FetchInit ==
    /\ cacheFile \in CacheFiles
    /\ now \in 0..MaxNow
    /\ ttl \in 1..MaxTtl
    /\ fPc = "idle"
    /\ fNow = 0
    /\ fCached = None
    /\ fAttempt = 0
    /\ httpCalls = 0
    /\ fResponses = <<>>
    /\ fStart = [cache |-> NoCacheFile, now |-> 0]
    /\ fResult = NoResult
    /\ fetches = 0

\* the release-index variables outside the release-index specification
FetchIdle ==
    /\ cacheFile = NoCacheFile
    /\ now = 0
    /\ ttl = 1
    /\ fPc = "idle"
    /\ fNow = 0
    /\ fCached = None
    /\ fAttempt = 0
    /\ httpCalls = 0
    /\ fResponses = <<>>
    /\ fStart = [cache |-> NoCacheFile, now |-> 0]
    /\ fResult = NoResult
    /\ fetches = 0

FetchNext ==
    \/ FetchStart
    \/ \E response \in Responses, entries \in {IndexNew, <<>>},
          cache_written \in BOOLEAN :
         FetchAttempt(response, entries, cache_written)
    \/ Tick

-----------------------------------------------------------------------------
(* The persisted documents: settings.toml and the release-index cache are    *)
(* written by atomic_write / write_cache, overrides.toml by                  *)
(* OverrideStore::save. A document takes DocChunks write calls; content is   *)
(* the sequence of chunks, each tagged with the write it belongs to.        *)

Writers == {"w1", "w2"}

FileNames == {"settings.toml", "overrides.toml", "release-index.json"}

Chunk(doc, part) == [doc |-> doc, part |-> part]

\* the bytes of a hole left by a write past the end of the file
Hole == Chunk(0, 0)

NoData == [exists |-> FALSE, data |-> <<>>]

Data(d) == [exists |-> TRUE, data |-> d]

\* pwrite of one chunk at a chunk offset
WriteAt(data, offset, chunk) ==
    [i \in 1..(IF offset + 1 > Len(data) THEN offset + 1 ELSE Len(data)) |->
       IF i = offset + 1 THEN chunk
       ELSE IF i <= Len(data) THEN data[i]
       ELSE Hole]

\* a manager process starts saving a document
BeginWrite(w, f) ==
    /\ wPc[w] = "idle"
    /\ writes < MaxWrites
    /\ writes' = writes + 1
    /\ wDoc' = [wDoc EXCEPT ![w] = writes + 1]
    /\ wFile' = [wFile EXCEPT ![w] = f]
    /\ wPc' = [wPc EXCEPT ![w] =
                 IF f = "overrides.toml" THEN "fs_open" ELSE "mktemp"]
    /\ UNCHANGED <<files, wTmp, wOff, observed>>

\* atomic_write / write_cache: NamedTempFile::new_in(parent)
AtomicCreateTemp(w) ==
    /\ wPc[w] = "mktemp"
    /\ wTmp' = [wTmp EXCEPT ![w] = Data(<<>>)]
    /\ wPc' = [wPc EXCEPT ![w] = "tmp_write"]
    /\ UNCHANGED <<files, wFile, wDoc, wOff, observed, writes>>

\* atomic_write / write_cache: write_all and flush, on the temp file
AtomicWriteChunk(w) ==
    /\ wPc[w] = "tmp_write"
    /\ Len(wTmp[w].data) < DocChunks
    /\ wTmp' = [wTmp EXCEPT ![w] =
                  Data(Append(wTmp[w].data,
                              Chunk(wDoc[w], Len(wTmp[w].data) + 1)))]
    /\ UNCHANGED <<files, wPc, wFile, wDoc, wOff, observed, writes>>

\* atomic_write / write_cache: temp_file.persist(path), a rename
AtomicPersist(w) ==
    /\ wPc[w] = "tmp_write"
    /\ Len(wTmp[w].data) = DocChunks
    /\ files' = [files EXCEPT ![wFile[w]] = wTmp[w]]
    /\ wTmp' = [wTmp EXCEPT ![w] = NoData]
    /\ wPc' = [wPc EXCEPT ![w] = "idle"]
    /\ UNCHANGED <<wFile, wDoc, wOff, observed, writes>>

\* OverrideStore::save: fs::write opens the file itself, truncating it
FsWriteOpen(w) ==
    /\ wPc[w] = "fs_open"
    /\ files' = [files EXCEPT ![wFile[w]] = Data(<<>>)]
    /\ wOff' = [wOff EXCEPT ![w] = 0]
    /\ wPc' = [wPc EXCEPT ![w] = "fs_write"]
    /\ UNCHANGED <<wFile, wDoc, wTmp, observed, writes>>

\* OverrideStore::save: fs::write, write_all on the file itself
FsWriteChunk(w) ==
    /\ wPc[w] = "fs_write"
    /\ wOff[w] < DocChunks
    /\ files' = [files EXCEPT ![wFile[w]] =
                   Data(WriteAt(files[wFile[w]].data, wOff[w],
                                Chunk(wDoc[w], wOff[w] + 1)))]
    /\ wOff' = [wOff EXCEPT ![w] = wOff[w] + 1]
    /\ UNCHANGED <<wPc, wFile, wDoc, wTmp, observed, writes>>

\* OverrideStore::save: fs::write returns
FsWriteClose(w) ==
    /\ wPc[w] = "fs_write"
    /\ wOff[w] = DocChunks
    /\ wPc' = [wPc EXCEPT ![w] = "idle"]
    /\ UNCHANGED <<files, wFile, wDoc, wTmp, wOff, observed, writes>>

\* load_settings, OverrideStore::load, read_cached_index: read the file
ReadDocument(f) ==
    /\ observed' = [file |-> f, content |-> files[f]]
    /\ UNCHANGED <<files, wPc, wFile, wDoc, wTmp, wOff, writes>>

DocInit ==
    /\ files = [f \in FileNames |-> NoData]
    /\ wPc = [w \in Writers |-> "idle"]
    /\ wFile = [w \in Writers |-> "settings.toml"]
    /\ wDoc = [w \in Writers |-> 0]
    /\ wTmp = [w \in Writers |-> NoData]
    /\ wOff = [w \in Writers |-> 0]
    /\ observed = [file |-> "settings.toml", content |-> NoData]
    /\ writes = 0

\* the document variables outside the document specification
DocIdle == DocInit

DocNext ==
    \/ \E w \in Writers, f \in FileNames : BeginWrite(w, f)
    \/ \E w \in Writers : AtomicCreateTemp(w)
    \/ \E w \in Writers : AtomicWriteChunk(w)
    \/ \E w \in Writers : AtomicPersist(w)
    \/ \E w \in Writers : FsWriteOpen(w)
    \/ \E w \in Writers : FsWriteChunk(w)
    \/ \E w \in Writers : FsWriteClose(w)
    \/ \E f \in FileNames : ReadDocument(f)

-----------------------------------------------------------------------------
(* The install pipeline: RuntimeInstaller::ensure_installed and             *)
(* Store::remove_runtime, one action per step between two system calls.     *)

Procs == {"p1", "p2"}

Versions == {"v22.1.0", "v24.0.0"}

\* the entries below the single top-level directory of a runtime archive
ArchiveFiles == {"bin/node", "bin/npm"}

\* byte contents an archive file can have: two complete bodies a server can
\* send, and a body cut short by a failed or interrupted copy
Bodies == {"A", "B"}

NoDir == [exists |-> FALSE, files |-> {}]

Dir(fs) == [exists |-> TRUE, files |-> fs]

NoFile == [exists |-> FALSE, bytes |-> "none"]

File(b) == [exists |-> TRUE, bytes |-> b]

\* sha256_file: the digest is a function of the bytes, distinct bytes give
\* distinct digests
sha256_file(f) == [hex |-> f.bytes]

\* the digests a SHASUMS256.txt can list for an archive
Digests == {[hex |-> b] : b \in Bodies} \cup {[hex |-> "deadbeef"]}

NoDigest == [hex |-> "none"]

\* InstallLock::acquire, the name of the lock file of a version
lock_name(v) == <<".", v, ".install.lock">>

\* a check that never finds the runtime
is_never_installed(v) == FALSE

\* Store::is_installed
is_installed(v) == runtimeDir[v].exists

\* a drop that forgets the lock and leaves its file
DropLockKeepsFile(p) ==
    /\ lockFiles' = lockFiles
    /\ held' = [held EXCEPT ![p] = FALSE]

\* a drop that removes the lock file of the version whoever created it
DropLockOfAnyone(p) ==
    /\ lockFiles' = lockFiles \ {lock_name(ver[p])}
    /\ held' = [held EXCEPT ![p] = FALSE]

\* Drop for InstallLock: remove the lock file at the path the value holds
DropLock(p) ==
    /\ lockFiles' = IF held[p] THEN lockFiles \ {lock_name(ver[p])} ELSE lockFiles
    /\ held' = [held EXCEPT ![p] = FALSE]

\* an early or final return of ensure_installed: every scoped value is dropped
Return(p, r) ==
    /\ pc' = [pc EXCEPT ![p] = "done"]
    /\ result' = [result EXCEPT ![p] = r]
    /\ DropLock(p)

Goto(p, label) == pc' = [pc EXCEPT ![p] = label]

\* a manager process is started with `toolchain install v`
StartInstall(p, v) ==
    /\ pc[p] \in {"idle", "done", "killed"}
    /\ opsStarted < MaxOps
    /\ opsStarted' = opsStarted + 1
    /\ pc' = [pc EXCEPT ![p] = "fast_path"]
    /\ ver' = [ver EXCEPT ![p] = v]
    /\ held' = [held EXCEPT ![p] = FALSE]
    /\ tmp' = [tmp EXCEPT ![p] = NoDir]
    /\ expected' = [expected EXCEPT ![p] = NoDigest]
    /\ result' = [result EXCEPT ![p] = "none"]
    /\ downloaded' = [downloaded EXCEPT ![p] = FALSE]
    /\ UNCHANGED <<lockFiles, runtimeDir, downloads>>

\* ensure_installed, the fast path
FastPath(p) ==
    /\ pc[p] = "fast_path"
    /\ IF is_installed(ver[p])
         THEN Return(p, "AlreadyInstalled")
         ELSE Goto(p, "preflight") /\ UNCHANGED <<result, lockFiles, held>>
    /\ UNCHANGED <<ver, tmp, expected, downloaded, runtimeDir, downloads, opsStarted>>

\* ensure_version_available and PlatformTarget::from_host: neither touches the
\* disk; the release index and the host decide the outcome
Preflight(p) ==
    /\ pc[p] = "preflight"
    /\ \E outcome \in {"ok", "NotFound", "Network", "UnsupportedPlatform"} :
         IF outcome = "ok"
           THEN Goto(p, "acquire") /\ UNCHANGED <<result, lockFiles, held>>
           ELSE Return(p, outcome)
    /\ UNCHANGED <<ver, tmp, expected, downloaded, runtimeDir, downloads, opsStarted>>

\* a create that is not exclusive: an existing lock file is opened
acquire_not_exclusive(p) ==
    /\ lockFiles' = lockFiles \cup {lock_name(ver[p])}
    /\ held' = [held EXCEPT ![p] = TRUE]
    /\ Goto(p, "recheck")
    /\ UNCHANGED result

\* InstallLock::acquire: create_new(true) on the lock file
acquire(p) ==
    IF lock_name(ver[p]) \in lockFiles
      THEN /\ Return(p, "Conflict_LockHeld")
      ELSE /\ lockFiles' = lockFiles \cup {lock_name(ver[p])}
           /\ held' = [held EXCEPT ![p] = TRUE]
           /\ Goto(p, "recheck")
           /\ UNCHANGED result

Acquire(p) ==
    /\ pc[p] = "acquire"
    /\ acquire(p)
    /\ UNCHANGED <<ver, tmp, expected, downloaded, runtimeDir, downloads, opsStarted>>

\* the create fails for another reason than AlreadyExists
AcquireIoError(p) ==
    /\ pc[p] = "acquire"
    /\ Return(p, "Internal")
    /\ UNCHANGED <<ver, tmp, expected, downloaded, runtimeDir, downloads, opsStarted>>

\* the recheck under the lock
Recheck(p) ==
    /\ pc[p] = "recheck"
    /\ IF is_installed(ver[p])
         THEN Return(p, "AlreadyInstalled")
         ELSE Goto(p, "download") /\ UNCHANGED <<result, lockFiles, held>>
    /\ UNCHANGED <<ver, tmp, expected, downloaded, runtimeDir, downloads, opsStarted>>

\* download_file: the request, then File::create truncates the destination
DownloadRequest(p) ==
    /\ pc[p] = "download"
    /\ downloaded' = [downloaded EXCEPT ![p] = TRUE]
    /\ \E ok \in BOOLEAN :
         IF ok
           THEN /\ downloads' = [downloads EXCEPT ![ver[p]] = File("partial")]
                /\ Goto(p, "copy")
                /\ UNCHANGED <<result, lockFiles, held>>
           ELSE /\ Return(p, "Network")
                /\ UNCHANGED downloads
    /\ UNCHANGED <<ver, tmp, expected, runtimeDir, opsStarted>>

\* download_file: copy_to streams the body the server sends, then flush
DownloadCopy(p) ==
    /\ pc[p] = "copy"
    /\ \/ \E b \in Bodies :
            /\ downloads' = [downloads EXCEPT ![ver[p]] = File(b)]
            /\ Goto(p, "sums")
            /\ UNCHANGED <<result, lockFiles, held>>
       \/ /\ Return(p, "Network")
          /\ UNCHANGED downloads
    /\ UNCHANGED <<ver, tmp, expected, downloaded, runtimeDir, opsStarted>>

\* the sums file: fetched, parsed by parse_shasums, and the archive looked up
FetchSums(p) ==
    /\ pc[p] = "sums"
    /\ \/ \E r \in {"Network", "InvalidInput", "NotFound"} :
            Return(p, r) /\ UNCHANGED expected
       \/ \E d \in Digests :
            /\ expected' = [expected EXCEPT ![p] = d]
            /\ Goto(p, "verify")
            /\ UNCHANGED <<result, lockFiles, held>>
    /\ UNCHANGED <<ver, tmp, downloaded, runtimeDir, downloads, opsStarted>>

\* a comparison that lets every archive through
verify_skipped(p) ==
    Goto(p, "extract") /\ UNCHANGED <<result, lockFiles, held>>

\* the checksum comparison
verify(p) ==
    IF expected[p] # sha256_file(downloads[ver[p]])
      THEN Return(p, "Conflict_ChecksumMismatch")
      ELSE Goto(p, "extract") /\ UNCHANGED <<result, lockFiles, held>>

Verify(p) ==
    /\ pc[p] = "verify"
    /\ verify(p)
    /\ UNCHANGED <<ver, tmp, expected, downloaded, runtimeDir, downloads, opsStarted>>

\* extract_archive_to_runtime: the existence check and the temp directory
ExtractBegin(p) ==
    /\ pc[p] = "extract"
    /\ IF runtimeDir[ver[p]].exists
         THEN Return(p, "Installed") /\ UNCHANGED tmp
         ELSE \/ /\ tmp' = [tmp EXCEPT ![p] = Dir({})]
                 /\ Goto(p, "unpack")
                 /\ UNCHANGED <<result, lockFiles, held>>
              \/ Return(p, "Internal") /\ UNCHANGED tmp
    /\ UNCHANGED <<ver, expected, downloaded, runtimeDir, downloads, opsStarted>>

\* unpacking straight into the final directory
unpack_in_place(p, f) ==
    /\ runtimeDir' = [runtimeDir EXCEPT
                        ![ver[p]] = Dir(runtimeDir[ver[p]].files \cup {f})]
    /\ tmp' = [tmp EXCEPT ![p] = Dir(tmp[p].files \cup {f})]

\* archive.unpack(temp_dir.path()) writes one entry
unpack(p, f) ==
    /\ tmp' = [tmp EXCEPT ![p] = Dir(tmp[p].files \cup {f})]
    /\ UNCHANGED runtimeDir

Unpack(p) ==
    /\ pc[p] = "unpack"
    /\ tmp[p].files # ArchiveFiles
    /\ \E f \in ArchiveFiles \ tmp[p].files : unpack(p, f)
    /\ UNCHANGED <<pc, ver, held, expected, result, downloaded, lockFiles,
                   downloads, opsStarted>>

\* archive.unpack fails: the TempDir guard removes the temp directory
UnpackError(p) ==
    /\ pc[p] = "unpack"
    /\ tmp[p].files # ArchiveFiles
    /\ tmp' = [tmp EXCEPT ![p] = NoDir]
    /\ Return(p, "Internal")
    /\ UNCHANGED <<ver, expected, downloaded, runtimeDir, downloads, opsStarted>>

\* fs::rename(extracted_root, runtime_dir)
Rename(p) ==
    /\ pc[p] = "unpack"
    /\ tmp[p].files = ArchiveFiles
    /\ IF runtimeDir[ver[p]].exists /\ runtimeDir[ver[p]].files # {}
         THEN \* ENOTEMPTY: the error is returned, the temp directory dropped
              /\ tmp' = [tmp EXCEPT ![p] = NoDir]
              /\ Return(p, "Internal")
              /\ UNCHANGED runtimeDir
         ELSE /\ runtimeDir' = [runtimeDir EXCEPT ![ver[p]] = Dir(tmp[p].files)]
              /\ tmp' = [tmp EXCEPT ![p] = Dir({})]
              /\ Goto(p, "cleanup")
              /\ UNCHANGED <<result, lockFiles, held>>
    /\ UNCHANGED <<ver, expected, downloaded, downloads, opsStarted>>

\* the return after the rename: the TempDir and the InstallLock are dropped
Cleanup(p) ==
    /\ pc[p] = "cleanup"
    /\ tmp' = [tmp EXCEPT ![p] = NoDir]
    /\ Return(p, "Installed")
    /\ UNCHANGED <<ver, expected, downloaded, runtimeDir, downloads, opsStarted>>

\* a manager process is started with `toolchain uninstall v`
StartUninstall(p, v) ==
    /\ pc[p] \in {"idle", "done", "killed"}
    /\ opsStarted < MaxOps
    /\ opsStarted' = opsStarted + 1
    /\ pc' = [pc EXCEPT ![p] = "rm_check"]
    /\ ver' = [ver EXCEPT ![p] = v]
    /\ held' = [held EXCEPT ![p] = FALSE]
    /\ tmp' = [tmp EXCEPT ![p] = NoDir]
    /\ expected' = [expected EXCEPT ![p] = NoDigest]
    /\ result' = [result EXCEPT ![p] = "none"]
    /\ downloaded' = [downloaded EXCEPT ![p] = FALSE]
    /\ UNCHANGED <<lockFiles, runtimeDir, downloads>>

\* Store::remove_runtime, the existence check
RemoveCheck(p) ==
    /\ pc[p] = "rm_check"
    /\ IF ~runtimeDir[ver[p]].exists
         THEN Return(p, "NotFound")
         ELSE Goto(p, "rm_files") /\ UNCHANGED <<result, lockFiles, held>>
    /\ UNCHANGED <<ver, tmp, expected, downloaded, runtimeDir, downloads, opsStarted>>

\* fs::remove_dir_all unlinks the entries one by one, then the directory
RemoveStep(p) ==
    /\ pc[p] = "rm_files"
    /\ LET d == runtimeDir[ver[p]] IN
         IF ~d.exists
           THEN Return(p, "Internal") /\ UNCHANGED runtimeDir
           ELSE IF d.files = {}
             THEN /\ runtimeDir' = [runtimeDir EXCEPT ![ver[p]] = NoDir]
                  /\ Return(p, "Removed")
             ELSE /\ \E f \in d.files :
                       runtimeDir' = [runtimeDir EXCEPT
                                        ![ver[p]] = Dir(d.files \ {f})]
                  /\ UNCHANGED <<pc, result, lockFiles, held>>
    /\ UNCHANGED <<ver, tmp, expected, downloaded, downloads, opsStarted>>

\* the process is killed (SIGKILL, SIGINT, power loss): no destructor runs,
\* so what it created on disk stays as it is
Kill(p) ==
    /\ pc[p] \notin {"idle", "done", "killed"}
    /\ pc' = [pc EXCEPT ![p] = "killed"]
    /\ UNCHANGED <<ver, held, tmp, expected, result, downloaded, lockFiles,
                   runtimeDir, downloads, opsStarted>>

InstallInit ==
    /\ pc = [p \in Procs |-> "idle"]
    /\ ver = [p \in Procs |-> "v22.1.0"]
    /\ held = [p \in Procs |-> FALSE]
    /\ tmp = [p \in Procs |-> NoDir]
    /\ expected = [p \in Procs |-> NoDigest]
    /\ result = [p \in Procs |-> "none"]
    /\ downloaded = [p \in Procs |-> FALSE]
    /\ lockFiles = {}
    /\ runtimeDir = [v \in Versions |-> NoDir]
    /\ downloads = [v \in Versions |-> NoFile]
    /\ opsStarted = 0

InstallNext ==
    \E p \in Procs :
        \/ \E v \in Versions : StartInstall(p, v)
        \/ FastPath(p)
        \/ Preflight(p)
        \/ Acquire(p)
        \/ AcquireIoError(p)
        \/ Recheck(p)
        \/ DownloadRequest(p)
        \/ DownloadCopy(p)
        \/ FetchSums(p)
        \/ Verify(p)
        \/ ExtractBegin(p)
        \/ Unpack(p)
        \/ UnpackError(p)
        \/ Rename(p)
        \/ Cleanup(p)
        \/ \E v \in Versions : StartUninstall(p, v)
        \/ RemoveCheck(p)
        \/ RemoveStep(p)
        \/ Kill(p)

\* the install variables outside the install specification
InstallIdle == InstallInit

-----------------------------------------------------------------------------
(* The release tool, versions: bump_version and next_prerelease             *)
(* (crates/cargo-mono/src/versioning.rs).                                    *)

\* str::starts_with
str_starts_with(s, prefix) ==
    /\ Len(prefix) <= Len(s)
    /\ Take(s, Len(prefix)) = prefix

\* str::parse::<u64>: decimal digits
parse_u64(s) ==
    IF s # <<>> /\ \A i \in DOMAIN s : s[i] \in Digit
      THEN Some(DigitsToNat(s))
      ELSE None

\* semver::Prerelease::new: empty, or dot-separated prerelease identifiers
Prerelease_new(text) ==
    IF text = <<>> \/ AllPreIdent(SplitOn(text, "."))
      THEN Ok(text)
      ELSE Err("InvalidInput")

\* format!("{preid}.1")
first_prerelease(preid) == Prerelease_new(preid \o <<".", "1">>)

\* next_prerelease, given the number parsed from the suffix
numbered_prerelease(preid, number) ==
    IF number.some
      THEN Prerelease_new(preid \o <<".">> \o NatToDigits(number.value + 1))
      ELSE first_prerelease(preid)

\* next_prerelease, on the text that follows the identifier
suffixed_prerelease(preid, suffix) ==
    IF suffix # <<>> /\ Head(suffix) = "."
      THEN numbered_prerelease(preid, parse_u64(Tail(suffix)))
      ELSE first_prerelease(preid)

\* next_prerelease
next_prerelease(current, preid) ==
    IF current.pre = <<>> THEN first_prerelease(preid)
    ELSE IF ~str_starts_with(current.pre, preid) THEN first_prerelease(preid)
    ELSE suffixed_prerelease(preid, Drop(current.pre, Len(preid)))

\* bump_version, the Prerelease arm once next_prerelease has returned
bump_prerelease(current, preid, next_pre) ==
    IF ~next_pre.ok THEN next_pre
    ELSE IF current.pre = <<>> \/ ~str_starts_with(current.pre, preid)
      THEN Ok([current EXCEPT !.patch = current.patch + 1,
                              !.pre = next_pre.value, !.build = <<>>])
      ELSE Ok([current EXCEPT !.pre = next_pre.value, !.build = <<>>])

\* bump_version
bump_version(current, level, preid) ==
    CASE level = "Major" ->
           Ok([current EXCEPT !.major = current.major + 1, !.minor = 0,
                              !.patch = 0, !.pre = <<>>, !.build = <<>>])
      [] level = "Minor" ->
           Ok([current EXCEPT !.minor = current.minor + 1, !.patch = 0,
                              !.pre = <<>>, !.build = <<>>])
      [] level = "Patch" ->
           Ok([current EXCEPT !.patch = current.patch + 1,
                              !.pre = <<>>, !.build = <<>>])
      [] level = "Prerelease" ->
           IF ~preid.some THEN Err("InvalidInput")
           ELSE bump_prerelease(current, preid.value,
                                next_prerelease(current, preid.value))

BumpLevels == {"Major", "Minor", "Patch", "Prerelease"}

\* the --preid values of the model, the last one no identifier
Preids == {<<"r", "c">>, <<"b">>, <<"r", "c", ".", "1">>, <<"r", "_">>}

\* prerelease texts of the versions the model starts from
PrereleaseSamples ==
    { <<>>,
      <<"r", "c">>,
      <<"r", "c", ".", "1">>,
      <<"r", "c", ".", "9">>,
      <<"r", "c", "1">>,
      <<"r", "c", ".", "x">>,
      <<"r", "c", ".", "1", ".", "5">>,
      <<"r", "c", "-", "1">>,
      <<"b", ".", "2">>,
      <<"a">>,
      <<"7">> }

\* the versions the model starts from
BumpVersions ==
    { [major |-> ma, minor |-> mi, patch |-> pa, pre |-> pr, build |-> bu] :
        ma \in {0, 1}, mi \in {2}, pa \in {0, 3},
        pr \in PrereleaseSamples, bu \in {<<>>, <<"b", "1">>} }

NoPreid == None

\* one call of bump_version
BumpVersion ==
    /\ bPc = "start"
    /\ bResult' = bump_version(bCurrent, bLevel, bPreid)
    /\ bPc' = "done"
    /\ UNCHANGED <<bCurrent, bLevel, bPreid, bumps>>

\* the bumped version is bumped again, as a later run of the tool does
BumpAgain(level, preid) ==
    /\ bPc = "done"
    /\ bResult.ok
    /\ bumps < MaxBumps
    /\ bumps' = bumps + 1
    /\ bCurrent' = bResult.value
    /\ bLevel' = level
    /\ bPreid' = preid
    /\ bResult' = NoResult
    /\ bPc' = "start"

BumpInit ==
    /\ bPc = "start"
    /\ bCurrent \in BumpVersions
    /\ bLevel \in BumpLevels
    /\ bPreid \in {NoPreid} \cup {Some(x) : x \in Preids}
    /\ bResult = NoResult
    /\ bumps = 1

\* the version variables outside the version specification
BumpIdle ==
    /\ bPc = "start"
    /\ bCurrent = [major |-> 0, minor |-> 0, patch |-> 0, pre |-> <<>>,
                   build |-> <<>>]
    /\ bLevel = "Major"
    /\ bPreid = NoPreid
    /\ bResult = NoResult
    /\ bumps = 1

BumpNext ==
    \/ BumpVersion
    \/ \E level \in BumpLevels, preid \in {NoPreid} \cup {Some(x) : x \in Preids} :
         BumpAgain(level, preid)

-----------------------------------------------------------------------------
(* The release tool, workspace model: topological_order, changed_packages   *)
(* and expand_dependents (crates/cargo-mono/src/workspace.rs).               *)

\* the member packages, in the order of their names (BTreeMap order)
PackageOrder == <<"app", "cli", "core">>

PackageNames == {PackageOrder[i] : i \in DOMAIN PackageOrder}

\* the elements of a BTreeSet of names, in iteration order
InNameOrder(names) == SelectSeq(PackageOrder, LAMBDA n : n \in names)

\* WorkspacePackage::directory_relative_path; cli lies inside app
directory_relative_path(name) ==
    CASE name = "app" -> <<"crates", "app">>
      [] name = "cli" -> <<"crates", "app", "cli">>
      [] name = "core" -> <<"crates", "core">>

\* Workspace::load: the dependents map is the inverse of the dependencies map
dependents_from(dependencies) ==
    [n \in PackageNames |-> {m \in PackageNames : n \in dependencies[m]}]

\* Workspace::root, as path components
WorkspaceRoot == <<"repo">>

GLOBAL_IMPACT_FILES == {<<"Cargo.toml">>, <<"Cargo.lock">>, <<"rust-toolchain">>}

RawPath(abs, comps) == [abs |-> abs, comps |-> comps]

\* the changed paths a caller passes; "." is a leading CurDir component
RawPaths ==
    { RawPath(FALSE, <<"crates", "core", "src">>),
      RawPath(FALSE, <<".", "crates", "app", "src">>),
      RawPath(TRUE,  <<"repo", "crates", "app", "cli", "src">>),
      RawPath(TRUE,  <<"other", "crates", "core", "src">>),
      RawPath(FALSE, <<"crates", "apps", "src">>),
      RawPath(FALSE, <<"crates", "core", "Cargo.toml">>),
      RawPath(FALSE, <<"docs", "readme">>),
      RawPath(FALSE, <<"Cargo.toml">>),
      RawPath(FALSE, <<".", "Cargo.lock">>),
      RawPath(TRUE,  <<"repo", "rust-toolchain">>),
      RawPath(TRUE,  <<"other", "Cargo.toml">>) }

\* Workspace::normalize_relative_path
normalize_relative_path(path) ==
    IF path.abs
      THEN IF starts_with(path.comps, WorkspaceRoot)
             THEN Some(Drop(path.comps, Len(WorkspaceRoot)))
             ELSE None
    ELSE IF path.comps # <<>> /\ Head(path.comps) = "."
      THEN Some(Tail(path.comps))
    ELSE Some(path.comps)

\* is_global_impact_path, on the path as it was passed
is_global_impact_raw(path) == path.comps \in GLOBAL_IMPACT_FILES

\* Workspace::is_global_impact_path
is_global_impact_path(path) ==
    /\ normalize_relative_path(path).some
    /\ normalize_relative_path(path).value \in GLOBAL_IMPACT_FILES

\* changed_packages: the packages whose directory a changed path lies in
direct_matches(changed_paths) ==
    { name \in PackageNames :
        \E raw_path \in changed_paths :
          /\ normalize_relative_path(raw_path).some
          /\ starts_with(normalize_relative_path(raw_path).value,
                         directory_relative_path(name)) }

\* expand_dependents: the loop, with the queue as a stack
RECURSIVE expand_loop(_, _, _)
expand_loop(dependents, expanded, queue) ==
    IF queue = <<>> THEN expanded
    ELSE expand_loop(
           dependents,
           expanded \cup dependents[queue[Len(queue)]],
           Take(queue, Len(queue) - 1)
             \o InNameOrder(dependents[queue[Len(queue)]] \ expanded))

\* an expansion that adds the dependents of the seeds only
expand_one_level(dependents, names) ==
    names \cup UNION {dependents[n] : n \in names}

\* Workspace::expand_dependents
expand_dependents(dependents, names) ==
    expand_loop(dependents, names, InNameOrder(names))

\* Workspace::changed_packages
changed_packages(dependents, changed_paths, include_dependents) ==
    IF \E path \in changed_paths : is_global_impact_path(path)
      THEN PackageNames
    ELSE IF include_dependents
      THEN expand_dependents(dependents, direct_matches(changed_paths))
    ELSE direct_matches(changed_paths)

\* an in-degree that counts every dependency
indegree_of_all(dependencies, selected, name) ==
    Cardinality(dependencies[name])

\* topological_order: deps.intersection(selected).count()
indegree_of(dependencies, selected, name) ==
    Cardinality(dependencies[name] \cap selected)

\* topological_order: the in-degree of every selected package
initial_indegree(dependencies, selected) ==
    [n \in PackageNames |->
       IF n \in selected THEN indegree_of(dependencies, selected, n) ELSE 0]

\* topological_order: the packages that are ready at the start
initial_ready(indegree, selected) == {n \in selected : indegree[n] = 0}

\* topological_order: the selected dependents whose in-degree goes down
\* when name is moved to the order
lowered_dependents(dependents, selected, indegree, name) ==
    {d \in dependents[name] : d \in selected /\ indegree[d] > 0}

\* topological_order: the in-degrees after one turn of the loop
indegree_after(indegree, lowered) ==
    [n \in PackageNames |->
       IF n \in lowered THEN indegree[n] - 1 ELSE indegree[n]]

\* topological_order: the ready set after one turn of the loop
ready_after(indegree, ready, lowered, name) ==
    (ready \ {name}) \cup {d \in lowered : indegree[d] = 1}

\* topological_order: the length check
order_result(ordered, selected) ==
    IF Len(ordered) # Cardinality(selected) THEN Err("Conflict")
                                             ELSE Ok(ordered)

\* topological_order: the loop, run to its end
RECURSIVE order_loop(_, _, _, _, _)
order_loop(dependents, selected, indegree, ready, ordered) ==
    IF ready = {} THEN ordered
    ELSE order_loop(
           dependents, selected,
           indegree_after(indegree,
             lowered_dependents(dependents, selected, indegree,
                                Head(InNameOrder(ready)))),
           ready_after(indegree, ready,
             lowered_dependents(dependents, selected, indegree,
                                Head(InNameOrder(ready))),
             Head(InNameOrder(ready))),
           Append(ordered, Head(InNameOrder(ready))))

\* an order that follows the names only
name_order(dependencies, dependents, selected) == Ok(InNameOrder(selected))

\* Workspace::topological_order
topological_order(dependencies, dependents, selected) ==
    order_result(
      order_loop(dependents, selected,
                 initial_indegree(dependencies, selected),
                 initial_ready(initial_indegree(dependencies, selected), selected),
                 <<>>),
      selected)

NoWsCall == [op |-> "none"]

\* topological_order, up to the loop: the in-degrees and the ready set
TopoStart(selected) ==
    /\ tPc = "idle"
    /\ wsCall = NoWsCall
    /\ tSelected' = selected
    /\ tIndegree' = initial_indegree(wsDependencies, selected)
    /\ tReady' = initial_ready(tIndegree', selected)
    /\ tOrdered' = <<>>
    /\ tResult' = NoResult
    /\ tPc' = "loop"
    /\ UNCHANGED <<wsDependencies, wsDependents, wsCall>>

\* topological_order, one turn of the loop: ready.first() is moved to the
\* order and the in-degree of its selected dependents goes down by one
TopoPop ==
    /\ tPc = "loop"
    /\ tReady # {}
    /\ tOrdered' = Append(tOrdered, Head(InNameOrder(tReady)))
    /\ tIndegree' =
         indegree_after(tIndegree,
           lowered_dependents(wsDependents, tSelected, tIndegree,
                              Head(InNameOrder(tReady))))
    /\ tReady' =
         ready_after(tIndegree, tReady,
           lowered_dependents(wsDependents, tSelected, tIndegree,
                              Head(InNameOrder(tReady))),
           Head(InNameOrder(tReady)))
    /\ UNCHANGED <<wsDependencies, wsDependents, wsCall, tSelected, tResult, tPc>>

\* topological_order, after the loop: the length check
TopoReturn ==
    /\ tPc = "loop"
    /\ tReady = {}
    /\ tResult' = order_result(tOrdered, tSelected)
    /\ tPc' = "done"
    /\ UNCHANGED <<wsDependencies, wsDependents, wsCall, tSelected, tIndegree,
                   tReady, tOrdered>>

\* the caller takes the result
TopoTaken ==
    /\ tPc = "done"
    /\ tPc' = "idle"
    /\ tSelected' = {}
    /\ tIndegree' = [n \in PackageNames |-> 0]
    /\ tReady' = {}
    /\ tOrdered' = <<>>
    /\ tResult' = NoResult
    /\ UNCHANGED <<wsDependencies, wsDependents, wsCall>>

\* a call of Workspace::changed_packages
CallChangedPackages(changed_paths, include_dependents) ==
    /\ tPc = "idle"
    /\ wsCall = NoWsCall
    /\ wsCall' = [op |-> "changed_packages", paths |-> changed_paths,
                  include_dependents |-> include_dependents,
                  result |-> changed_packages(wsDependents, changed_paths,
                                              include_dependents)]
    /\ UNCHANGED <<wsDependencies, wsDependents, tPc, tSelected, tIndegree,
                   tReady, tOrdered, tResult>>

\* the call returns to its caller
WsCallReturn ==
    /\ wsCall # NoWsCall
    /\ wsCall' = NoWsCall
    /\ UNCHANGED <<wsDependencies, wsDependents, tPc, tSelected, tIndegree,
                   tReady, tOrdered, tResult>>

\* the sets of changed paths of the model
ChangedPathSets == {ps \in SUBSET RawPaths : Cardinality(ps) <= MaxChangedPaths}

\* Workspace::load: any dependency relation between the members (cargo admits
\* cycles through dev-dependencies), with its inverse
WorkspaceInit ==
    /\ wsDependencies \in [PackageNames -> SUBSET PackageNames]
    /\ wsDependents = dependents_from(wsDependencies)
    /\ wsCall = NoWsCall
    /\ tPc = "idle"
    /\ tSelected = {}
    /\ tIndegree = [n \in PackageNames |-> 0]
    /\ tReady = {}
    /\ tOrdered = <<>>
    /\ tResult = NoResult

\* the workspace variables outside the workspace specification
WorkspaceIdle ==
    /\ wsDependencies = [n \in PackageNames |-> {}]
    /\ wsDependents = [n \in PackageNames |-> {}]
    /\ wsCall = NoWsCall
    /\ tPc = "idle"
    /\ tSelected = {}
    /\ tIndegree = [n \in PackageNames |-> 0]
    /\ tReady = {}
    /\ tOrdered = <<>>
    /\ tResult = NoResult

WorkspaceNext ==
    \/ \E selected \in SUBSET PackageNames : TopoStart(selected)
    \/ TopoPop
    \/ TopoReturn
    \/ TopoTaken
    \/ \E changed_paths \in ChangedPathSets, include_dependents \in BOOLEAN :
         CallChangedPackages(changed_paths, include_dependents)
    \/ WsCallReturn

-----------------------------------------------------------------------------
(* The release tool, one run of bump or publish: main.rs run, the           *)
(* pre-flight, the metadata load, commands/publish.rs and commands/bump.rs. *)

MAX_PUBLISH_ATTEMPTS == 3

\* ErrorKind::exit_code
exit_code(kind) ==
    CASE kind = "Internal" -> 1
      [] kind = "InvalidInput" -> 2
      [] kind = "Git" -> 3
      [] kind = "Cargo" -> 4
      [] kind = "Conflict" -> 5

\* an external command the run has started, or a manifest it has written
Effect(kind, package) == [kind |-> kind, package |-> package]

\* the state of the working tree: "broken" is a tree git status fails on
TreeStates == {"clean", "dirty", "broken"}

\* ensure_clean_working_tree without the status check
ensure_clean_unchecked(allow_dirty, tree) == Ok("clean")

\* git::ensure_clean_working_tree, given what git status reports
ensure_clean_working_tree(allow_dirty, tree) ==
    IF allow_dirty THEN Ok("clean")
    ELSE IF tree = "broken" THEN Err("Git")
    ELSE IF tree = "clean" THEN Ok("clean")
    ELSE Err("Conflict")

\* the git status command ensure_clean_working_tree runs
status_effects(allow_dirty) ==
    IF allow_dirty THEN <<>> ELSE <<Effect("git status", "")>>

\* the dependency relations of the runs of the model: none, one edge, a
\* chain, a fork, and a cycle
ChainGraph ==
    [n \in PackageNames |->
       CASE n = "app" -> {"core"} [] n = "cli" -> {"app"} [] n = "core" -> {}]

ForkGraph ==
    [n \in PackageNames |->
       CASE n = "app" -> {"core"} [] n = "cli" -> {"core"} [] n = "core" -> {}]

EdgeGraph ==
    [n \in PackageNames |->
       CASE n = "app" -> {"cli"} [] n = "cli" -> {} [] n = "core" -> {}]

CycleGraph ==
    [n \in PackageNames |->
       CASE n = "app" -> {"cli"} [] n = "cli" -> {"app"} [] n = "core" -> {}]

RunGraphs ==
    {[n \in PackageNames |-> {}], EdgeGraph, ChainGraph, ForkGraph, CycleGraph}

\* what one cargo publish invocation gave: whether the process could be
\* started, its status, and the lines of its two streams
PublishOutput(spawned, success, stdout, stderr) ==
    [spawned |-> spawned, success |-> success, stdout |-> stdout,
     stderr |-> stderr]

PublishOutputs ==
    { PublishOutput(FALSE, FALSE, <<>>, <<>>),
      PublishOutput(TRUE, TRUE, <<>>, <<"Uploading">>),
      PublishOutput(TRUE, FALSE, <<>>, <<"already uploaded">>),
      PublishOutput(TRUE, FALSE, <<"ALREADY EXISTS">>,
                    <<"no matching package named">>),
      PublishOutput(TRUE, FALSE, <<>>,
                    <<"failed to select a version for the requirement">>),
      PublishOutput(TRUE, FALSE, <<>>, <<"network timeout">>) }

\* str::to_lowercase, on the lines of the model
to_lowercase(line) ==
    IF line = "ALREADY EXISTS" THEN "already exists" ELSE line

\* combined.contains(phrase), combined being stdout, a newline, stderr, lowered
combined_contains(output, phrase) ==
    \E i \in DOMAIN (output.stdout \o output.stderr) :
       to_lowercase((output.stdout \o output.stderr)[i]) = phrase

\* classify_publish_failure
classify_publish_failure(output) ==
    IF \/ combined_contains(output, "already uploaded")
       \/ combined_contains(output, "already exists")
       \/ combined_contains(output, "already on crates.io")
      THEN "AlreadyPublished"
    ELSE IF \/ combined_contains(output, "no matching package named")
            \/ combined_contains(output,
                 "failed to select a version for the requirement")
            \/ combined_contains(output,
                 "candidate versions found which didn't match")
      THEN "IndexNotReady"
    ELSE "Other"

\* a retry rule that retries every failure that is left
retries_any_failure(failure_kind, attempts) ==
    failure_kind # "AlreadyPublished" /\ attempts < MAX_PUBLISH_ATTEMPTS

\* publish::execute: the guard of the retry arm
retries(failure_kind, attempts) ==
    failure_kind = "IndexNotReady" /\ attempts < MAX_PUBLISH_ATTEMPTS

\* a delay that does not grow with the attempt
retry_delay_constant(attempt) == 2

\* retry_delay: the seconds to wait after the given attempt
retry_delay(attempt) ==
    CASE attempt = 1 -> 2
      [] attempt = 2 -> 4
      [] OTHER -> 8

\* publish::execute: the seconds thread::sleep is called with after an
\* attempt, 0 where no arm of the loop sleeps; only the retry arm does
slept_after(output, attempts) ==
    IF /\ output.spawned
       /\ ~output.success
       /\ retries(classify_publish_failure(output), attempts)
      THEN retry_delay(attempts)
      ELSE 0

\* an exit code that counts skipped packages as failures
report_exit_code_counting_skipped(skipped, failed) ==
    IF failed = <<>> /\ skipped = <<>> THEN 0 ELSE 1

\* publish::execute: the exit code of a run that reached its summary
report_exit_code(skipped, failed) ==
    IF failed = <<>> THEN 0 ELSE 1

\* publish::execute: the non-publishable targets, in name order
non_publishable_skips(names, publishable) ==
    [i \in 1..Len(InNameOrder(names \ publishable)) |->
       [name |-> InNameOrder(names \ publishable)[i],
        reason |-> "non-publishable"]]

\* the run ends with an error: main prints it and exits with its code
RunFails(kind) ==
    /\ rPc' = "exited"
    /\ rExit' = exit_code(kind)
    /\ rError' = kind

\* the run ends with the code the command returned
RunReturns(code) ==
    /\ rPc' = "exited"
    /\ rExit' = code
    /\ rError' = "none"

\* main.rs run_preflight_checks: bump and publish check the working tree
\* before anything else
RunPreflight ==
    /\ rPc = "preflight"
    /\ rEffects' = rEffects \o status_effects(rAllowDirty)
    /\ IF ensure_clean_working_tree(rAllowDirty, rTree).ok
         THEN rPc' = "load" /\ UNCHANGED <<rExit, rError>>
         ELSE RunFails(ensure_clean_working_tree(rAllowDirty, rTree).kind)
    /\ UNCHANGED <<rCommand, rAllowDirty, rBumpDependents, rPreidMissing,
                   rDependencies, rPublishable, rTargets, rTree, rTreeAtStart,
                   pOrder, pIndex, pAttempts, pPublished, pSkipped, pFailed,
                   pLog, bNextVersions>>

\* CargoMonoApp::new: Workspace::load runs cargo metadata, which may leave an
\* untracked Cargo.lock in a clean tree
LoadWorkspace(loaded, lockfile_created) ==
    /\ rPc = "load"
    /\ rEffects' = Append(rEffects, Effect("cargo metadata", ""))
    /\ rTree' = IF lockfile_created /\ rTree = "clean" THEN "dirty" ELSE rTree
    /\ IF loaded
         THEN rPc' = "execute" /\ UNCHANGED <<rExit, rError>>
         ELSE RunFails("Cargo")
    /\ UNCHANGED <<rCommand, rAllowDirty, rBumpDependents, rPreidMissing,
                   rDependencies, rPublishable, rTargets, rTreeAtStart,
                   pOrder, pIndex, pAttempts, pPublished, pSkipped, pFailed,
                   pLog, bNextVersions>>

\* publish::execute up to the loop: the second tree check, the targets, the
\* non-publishable skips and the order
PublishPrepare ==
    /\ rPc = "execute"
    /\ rCommand = "publish"
    /\ rEffects' = rEffects \o status_effects(rAllowDirty)
    /\ IF ~ensure_clean_working_tree(rAllowDirty, rTree).ok
         THEN /\ RunFails(ensure_clean_working_tree(rAllowDirty, rTree).kind)
              /\ UNCHANGED <<pOrder, pSkipped>>
       ELSE IF rTargets \cap rPublishable = {}
         THEN /\ RunReturns(0)
              /\ pSkipped' = non_publishable_skips(rTargets, rPublishable)
              /\ UNCHANGED pOrder
       ELSE IF ~topological_order(rDependencies, dependents_from(rDependencies),
                                  rTargets \cap rPublishable).ok
         THEN /\ RunFails("Conflict")
              /\ pSkipped' = non_publishable_skips(rTargets, rPublishable)
              /\ UNCHANGED pOrder
       ELSE /\ rPc' = "publishing"
            /\ pSkipped' = non_publishable_skips(rTargets, rPublishable)
            /\ pOrder' = topological_order(rDependencies,
                                           dependents_from(rDependencies),
                                           rTargets \cap rPublishable).value
            /\ UNCHANGED <<rExit, rError>>
    /\ UNCHANGED <<rCommand, rAllowDirty, rBumpDependents, rPreidMissing,
                   rDependencies, rPublishable, rTargets, rTree, rTreeAtStart,
                   pIndex, pAttempts, pPublished, pFailed, pLog, bNextVersions>>

\* a loop that ends with the package it has just recorded
LeaveLoop ==
    /\ pIndex' = Len(pOrder) + 1
    /\ pAttempts' = 0

\* publish::execute: the loops move on to the next package
NextPackage ==
    /\ pIndex' = pIndex + 1
    /\ pAttempts' = 0

\* publish::execute: one attempt for the current package; every arm but the
\* retry arm leaves the inner loop, and the retry arm is taken only while
\* attempts remain
PublishAttempt(output) ==
    /\ rPc = "publishing"
    /\ pIndex <= Len(pOrder)
    /\ pAttempts < MAX_PUBLISH_ATTEMPTS
    /\ rEffects' = Append(rEffects, Effect("cargo publish", pOrder[pIndex]))
    /\ pLog' = Append(pLog, [package |-> pOrder[pIndex],
                             attempt |-> pAttempts + 1, output |-> output,
                             slept |-> slept_after(output, pAttempts + 1)])
    /\ IF ~output.spawned
         THEN /\ RunFails("Cargo")
              /\ UNCHANGED <<pIndex, pAttempts, pPublished, pSkipped, pFailed>>
       ELSE IF output.success
         THEN /\ pPublished' = Append(pPublished,
                                 [name |-> pOrder[pIndex],
                                  attempts |-> pAttempts + 1])
              /\ NextPackage
              /\ UNCHANGED <<rPc, rExit, rError, pSkipped, pFailed>>
       ELSE IF classify_publish_failure(output) = "AlreadyPublished"
         THEN /\ pSkipped' = Append(pSkipped,
                               [name |-> pOrder[pIndex],
                                reason |-> "already-published"])
              /\ NextPackage
              /\ UNCHANGED <<rPc, rExit, rError, pPublished, pFailed>>
       ELSE IF retries(classify_publish_failure(output), pAttempts + 1)
         THEN /\ pAttempts' = pAttempts + 1
              /\ UNCHANGED <<rPc, rExit, rError, pIndex, pPublished, pSkipped,
                             pFailed>>
       ELSE /\ pFailed' = Append(pFailed,
                            [name |-> pOrder[pIndex],
                             attempts |-> pAttempts + 1])
            /\ NextPackage
            /\ UNCHANGED <<rPc, rExit, rError, pPublished, pSkipped>>
    /\ UNCHANGED <<rCommand, rAllowDirty, rBumpDependents, rPreidMissing,
                   rDependencies, rPublishable, rTargets, rTree, rTreeAtStart,
                   pOrder, bNextVersions>>

\* publish::execute after the loop: the summary and the exit code
PublishSummary ==
    /\ rPc = "publishing"
    /\ pIndex > Len(pOrder)
    /\ RunReturns(report_exit_code(pSkipped, pFailed))
    /\ UNCHANGED <<rCommand, rAllowDirty, rBumpDependents, rPreidMissing,
                   rDependencies, rPublishable, rTargets, rTree, rTreeAtStart,
                   rEffects, pOrder, pIndex, pAttempts, pPublished, pSkipped,
                   pFailed, pLog, bNextVersions>>

\* bump::execute: the packages that get a new version
bumped_names(dependents, selected, publishable, bump_dependents) ==
    IF bump_dependents
      THEN selected \cup (expand_dependents(dependents, selected) \cap publishable)
      ELSE selected

\* bump::execute up to apply_workspace_bump: targets and new versions
BumpPrepare ==
    /\ rPc = "execute"
    /\ rCommand = "bump"
    /\ IF rTargets \cap rPublishable = {}
         THEN RunReturns(0) /\ UNCHANGED bNextVersions
       ELSE IF rPreidMissing
         THEN RunFails("InvalidInput") /\ UNCHANGED bNextVersions
       ELSE /\ rPc' = "apply"
            /\ bNextVersions' =
                 bumped_names(dependents_from(rDependencies),
                              rTargets \cap rPublishable, rPublishable,
                              rBumpDependents)
            /\ UNCHANGED <<rExit, rError>>
    /\ UNCHANGED <<rCommand, rAllowDirty, rBumpDependents, rPreidMissing,
                   rDependencies, rPublishable, rTargets, rTree, rTreeAtStart,
                   rEffects, pOrder, pIndex, pAttempts, pPublished, pSkipped,
                   pFailed, pLog>>

\* the manifests, in name order, as write effects
write_effects(updated_manifests) ==
    [i \in 1..Len(InNameOrder(updated_manifests)) |->
       Effect("write manifest", InNameOrder(updated_manifests)[i])]

\* bump::execute: apply_workspace_bump writes the manifests that change;
\* which ones do depends on what the manifests hold
BumpApply(updated_manifests) ==
    /\ rPc = "apply"
    /\ rEffects' = rEffects \o write_effects(updated_manifests)
    /\ IF updated_manifests = {}
         THEN RunReturns(0)
         ELSE rPc' = "git" /\ UNCHANGED <<rExit, rError>>
    /\ UNCHANGED <<rCommand, rAllowDirty, rBumpDependents, rPreidMissing,
                   rDependencies, rPublishable, rTargets, rTree, rTreeAtStart,
                   pOrder, pIndex, pAttempts, pPublished, pSkipped, pFailed,
                   pLog, bNextVersions>>

\* the tags of the bumped packages, in name order, as effects
tag_effects(names) ==
    [i \in 1..Len(InNameOrder(names)) |->
       Effect("git tag", InNameOrder(names)[i])]

\* bump::execute: git add, git commit and one git tag per bumped package,
\* up to the first git command that fails
BumpCommit(failing) ==
    /\ rPc = "git"
    /\ rEffects' =
         rEffects \o
           CASE failing = "add" -> <<Effect("git add", "")>>
             [] failing = "commit" ->
                  <<Effect("git add", ""), Effect("git commit", "")>>
             [] failing = "tag" ->
                  <<Effect("git add", ""), Effect("git commit", "")>>
                    \o Take(tag_effects(bNextVersions), 1)
             [] failing = "none" ->
                  <<Effect("git add", ""), Effect("git commit", "")>>
                    \o tag_effects(bNextVersions)
    /\ IF failing = "none" THEN RunReturns(0) ELSE RunFails("Git")
    /\ UNCHANGED <<rCommand, rAllowDirty, rBumpDependents, rPreidMissing,
                   rDependencies, rPublishable, rTargets, rTree, rTreeAtStart,
                   pOrder, pIndex, pAttempts, pPublished, pSkipped, pFailed,
                   pLog, bNextVersions>>

\* the target selections of the runs of the model
RunTargets == {PackageNames, {"app", "cli"}, {"app", "core"}, {"core"}}

\* the publishable members of the runs of the model
RunPublishable == {PackageNames, {"app", "core"}, {"cli"}}

\* a run starts: the command line, the workspace and the working tree
RunInit ==
    /\ rCommand \in {"bump", "publish"}
    /\ rAllowDirty \in BOOLEAN
    /\ rBumpDependents \in (IF rCommand = "bump" THEN BOOLEAN ELSE {FALSE})
    /\ rPreidMissing \in (IF rCommand = "bump" THEN BOOLEAN ELSE {FALSE})
    /\ rDependencies \in RunGraphs
    /\ rPublishable \in RunPublishable
    /\ rTargets \in RunTargets
    /\ rTree \in TreeStates
    /\ rTreeAtStart = rTree
    /\ rPc = "preflight"
    /\ rEffects = <<>>
    /\ rExit = -1
    /\ rError = "none"
    /\ pOrder = <<>>
    /\ pIndex = 1
    /\ pAttempts = 0
    /\ pPublished = <<>>
    /\ pSkipped = <<>>
    /\ pFailed = <<>>
    /\ pLog = <<>>
    /\ bNextVersions = {}

\* the run variables outside the run specification
RunIdle ==
    /\ rCommand = "publish"
    /\ rAllowDirty = FALSE
    /\ rBumpDependents = FALSE
    /\ rPreidMissing = FALSE
    /\ rDependencies = [n \in PackageNames |-> {}]
    /\ rPublishable = {}
    /\ rTargets = {}
    /\ rTree = "clean"
    /\ rTreeAtStart = "clean"
    /\ rPc = "exited"
    /\ rEffects = <<>>
    /\ rExit = 0
    /\ rError = "none"
    /\ pOrder = <<>>
    /\ pIndex = 1
    /\ pAttempts = 0
    /\ pPublished = <<>>
    /\ pSkipped = <<>>
    /\ pFailed = <<>>
    /\ pLog = <<>>
    /\ bNextVersions = {}

RunNext ==
    \/ RunPreflight
    \/ \E loaded \in BOOLEAN, lockfile_created \in BOOLEAN :
         LoadWorkspace(loaded, lockfile_created)
    \/ PublishPrepare
    \/ \E output \in PublishOutputs : PublishAttempt(output)
    \/ PublishSummary
    \/ BumpPrepare
    \/ \E updated_manifests \in {{}, bNextVersions} : BumpApply(updated_manifests)
    \/ \E failing \in {"none", "add", "commit", "tag"} : BumpCommit(failing)

-----------------------------------------------------------------------------
(* The release tool, manifest rewriting: apply_workspace_bump and its        *)
(* helpers (crates/cargo-mono/src/versioning.rs).                            *)

\* a dependency entry of a manifest: the section it is in, its key, the form
\* of its value, its workspace key and its version key
DependencyEntry(section, name, form, workspace, version) ==
    [section |-> section, name |-> name, form |-> form,
     workspace |-> workspace, version |-> version]

\* a manifest: its package.version ("none": no [package] table, "inherited":
\* version.workspace = true, else the string) and its dependency entries
Manifest(package_version, entries) ==
    [package_version |-> package_version, entries |-> entries]

DEPENDENCY_SECTION_KEYS == {"dependencies", "dev-dependencies", "build-dependencies"}

\* update_dependency_versions: the sections it walks through
is_dependency_section(section) ==
    \/ section \in DEPENDENCY_SECTION_KEYS
    \/ section = "workspace.dependencies"
    \/ section \in {"target." \o key : key \in DEPENDENCY_SECTION_KEYS}

\* an entry update that does not look at the workspace key
item_changes_ignoring_workspace(entry, new_version) ==
    CASE entry.form = "string" -> entry.version # Some(new_version)
      [] entry.form \in {"inline", "table"} -> entry.version # Some(new_version)
      [] OTHER -> FALSE

\* update_dependency_item: whether the entry is rewritten
item_changes(entry, new_version) ==
    CASE entry.form = "string" -> entry.version # Some(new_version)
      [] entry.form \in {"inline", "table"} ->
           /\ entry.workspace # "true"
           /\ entry.version # Some(new_version)
      [] OTHER -> FALSE

\* update_dependency_section: whether the entry is looked at and rewritten
entry_changes(entry, bumped_versions) ==
    /\ is_dependency_section(entry.section)
    /\ entry.name \in DOMAIN bumped_versions
    /\ item_changes(entry, bumped_versions[entry.name])

\* an update that counts the entry and leaves its version key as it was
entry_left_as_found(entry, bumped_versions) == entry

\* update_dependency_item: the entry afterwards
updated_entry(entry, bumped_versions) ==
    IF entry_changes(entry, bumped_versions)
      THEN [entry EXCEPT !.version = Some(bumped_versions[entry.name])]
      ELSE entry

\* update_dependency_versions: the number of entries rewritten
RECURSIVE count_changes(_, _)
count_changes(entries, bumped_versions) ==
    IF entries = <<>> THEN 0
    ELSE (IF entry_changes(Head(entries), bumped_versions) THEN 1 ELSE 0)
           + count_changes(Tail(entries), bumped_versions)

\* update_package_version: whether package.version is rewritten
package_version_changes(manifest, name, bumped_versions) ==
    /\ name \in DOMAIN bumped_versions
    /\ manifest.package_version # "none"
    /\ manifest.package_version # bumped_versions[name]

\* the document after update_package_version and update_dependency_versions
updated_manifest(manifest, name, bumped_versions) ==
    Manifest(
      IF package_version_changes(manifest, name, bumped_versions)
        THEN bumped_versions[name] ELSE manifest.package_version,
      [i \in DOMAIN manifest.entries |->
         updated_entry(manifest.entries[i], bumped_versions)])

\* apply_workspace_bump: the changed flag of one manifest
manifest_changed(manifest, name, bumped_versions) ==
    \/ package_version_changes(manifest, name, bumped_versions)
    \/ count_changes(manifest.entries, bumped_versions) > 0

\* apply_workspace_bump, one turn of the loop over the packages: read and
\* parse the manifest, update it, write it back when it changed
ApplyToManifest(readable) ==
    /\ mPc = "loop"
    /\ mIndex <= Len(PackageOrder)
    /\ IF ~readable
         THEN /\ mPc' = "done"
              /\ mResult' = Err("Internal")
              /\ UNCHANGED <<mManifests, mWrites, mUpdated, mDependencyUpdates,
                             mIndex>>
         ELSE /\ mDependencyUpdates' =
                   mDependencyUpdates
                     + count_changes(mManifests[PackageOrder[mIndex]].entries,
                                     mBumped)
              /\ IF manifest_changed(mManifests[PackageOrder[mIndex]],
                                     PackageOrder[mIndex], mBumped)
                   THEN /\ mManifests' =
                             [mManifests EXCEPT ![PackageOrder[mIndex]] =
                                updated_manifest(@, PackageOrder[mIndex], mBumped)]
                        /\ mWrites' = Append(mWrites, PackageOrder[mIndex])
                        /\ mUpdated' = mUpdated \cup {PackageOrder[mIndex]}
                   ELSE UNCHANGED <<mManifests, mWrites, mUpdated>>
              /\ mIndex' = mIndex + 1
              /\ UNCHANGED <<mPc, mResult>>
    /\ UNCHANGED <<mOriginal, mBumped, mCalls>>

\* apply_workspace_bump after the loop: the result
ApplyReturn ==
    /\ mPc = "loop"
    /\ mIndex > Len(PackageOrder)
    /\ mPc' = "done"
    /\ mResult' = Ok([updated_manifests |-> mUpdated,
                      dependency_updates |-> mDependencyUpdates])
    /\ UNCHANGED <<mManifests, mOriginal, mBumped, mIndex, mWrites, mUpdated,
                   mDependencyUpdates, mCalls>>

\* apply_workspace_bump is called again with the same bumped_versions, on
\* the manifests the call before has left
ApplyAgain ==
    /\ mPc = "done"
    /\ mResult.ok
    /\ mCalls < MaxApplyCalls
    /\ mCalls' = mCalls + 1
    /\ mOriginal' = mManifests
    /\ mPc' = "loop"
    /\ mIndex' = 1
    /\ mWrites' = <<>>
    /\ mUpdated' = {}
    /\ mDependencyUpdates' = 0
    /\ mResult' = NoResult
    /\ UNCHANGED <<mManifests, mBumped>>

\* the dependency entries the manifest of app is made of
EntrySamples ==
    { DependencyEntry("dependencies", "core", "string", "absent", Some("1.0.0")),
      DependencyEntry("dependencies", "core", "string", "absent", Some("1.1.0")),
      DependencyEntry("dependencies", "core", "inline", "true", None),
      DependencyEntry("dependencies", "core", "inline", "absent", None),
      DependencyEntry("dev-dependencies", "core", "inline", "true", Some("1.0.0")),
      DependencyEntry("dev-dependencies", "core", "table", "false", Some("1.0.0")),
      DependencyEntry("build-dependencies", "core", "table", "absent", Some("1.1.0")),
      DependencyEntry("build-dependencies", "core", "other", "absent", None),
      DependencyEntry("target.dependencies", "core", "string", "absent", Some("^1.0")),
      DependencyEntry("workspace.dependencies", "app", "inline", "absent", Some("1.0.0")),
      DependencyEntry("patch", "core", "inline", "absent", Some("1.0.0")),
      DependencyEntry("dependencies", "serde", "string", "absent", Some("1.0.0")) }

\* the entry lists without a repeated key in a section
EntryLists ==
    { entries \in UNION {[1..n -> EntrySamples] : n \in 0..MaxManifestEntries} :
        \A i, j \in DOMAIN entries :
          (entries[i].section = entries[j].section
             /\ entries[i].name = entries[j].name) => i = j }

\* the new versions of a bump: bump_version never returns its input, but a
\* manifest can hold the new version already
BumpedVersionMaps ==
    { [n \in names |-> IF n = "core" THEN "1.1.0" ELSE "2.0.0"] :
        names \in {{"core"}, {"app", "core"}, {"app"}} }

ManifestInit ==
    /\ mBumped \in BumpedVersionMaps
    /\ \E package_version \in {"none", "inherited", "1.0.0", "2.0.0"},
          entries \in EntryLists,
          core_version \in {"1.0.0", "1.1.0"} :
         mManifests =
           [n \in PackageNames |->
              CASE n = "app" -> Manifest(package_version, entries)
                [] n = "cli" ->
                     Manifest("0.1.0",
                       <<DependencyEntry("dependencies", "core", "inline",
                                         "true", None)>>)
                [] n = "core" -> Manifest(core_version, <<>>)]
    /\ mOriginal = mManifests
    /\ mPc = "loop"
    /\ mIndex = 1
    /\ mWrites = <<>>
    /\ mUpdated = {}
    /\ mDependencyUpdates = 0
    /\ mResult = NoResult
    /\ mCalls = 1

\* the manifest variables outside the manifest specification
ManifestIdle ==
    /\ mBumped = <<>>
    /\ mManifests = [n \in PackageNames |-> Manifest("none", <<>>)]
    /\ mOriginal = mManifests
    /\ mPc = "done"
    /\ mIndex = 1
    /\ mWrites = <<>>
    /\ mUpdated = {}
    /\ mDependencyUpdates = 0
    /\ mResult = NoResult
    /\ mCalls = 1

ManifestNext ==
    \/ \E readable \in BOOLEAN : ApplyToManifest(readable)
    \/ ApplyReturn
    \/ ApplyAgain

-----------------------------------------------------------------------------
(* The runtime manager, self update: update and replace_binary               *)
(* (crates/nodeup/src/commands/self_cmd.rs).                                 *)

\* the contents a binary file can have; Absent is a path without a file
Binaries == {"release 1", "release 2", "release 3"}

Absent == "absent"

\* file_hash: the SHA-256 digest of the bytes, distinct for distinct bytes
Sha256(bytes) ==
    CASE bytes = "release 1" -> "9f2c"
      [] bytes = "release 2" -> "41d7"
      [] bytes = "release 3" -> "c05a"

\* an update that never finds the target up to date
never_up_to_date(source, target) == FALSE

\* update: the target exists and has the hash of the source
is_up_to_date(source, target) ==
    target # Absent /\ Sha256(target) = Sha256(source)

\* a run of self update ends
SelfUpdateEnds(status) ==
    /\ suPc' = "done"
    /\ suStatus' = status

\* update: the paths, the two hashes and the decision
SelfUpdateStart ==
    /\ suPc = "idle"
    /\ suRuns < MaxSelfUpdates
    /\ suRuns' = suRuns + 1
    /\ suPrevious' = [status |-> suStatus, source |-> suSourceAtStart]
    /\ suSourceAtStart' = suSource
    /\ suTargetAtStart' = suTarget
    /\ suTargetOps' = <<>>
    /\ IF suSource = Absent
         THEN SelfUpdateEnds("NotFound")
       ELSE IF is_up_to_date(suSource, suTarget)
         THEN SelfUpdateEnds("already-up-to-date")
       ELSE suPc' = "stage" /\ suStatus' = "running"
    /\ UNCHANGED <<suSource, suTarget, suBackup, suStaged>>

\* replace_binary: the source is copied to a temporary file next to the target
ReplaceStage(written) ==
    /\ suPc = "stage"
    /\ IF written
         THEN /\ suStaged' = suSource
              /\ suPc' = IF suTarget # Absent THEN "backup" ELSE "rename"
              /\ UNCHANGED suStatus
         ELSE /\ SelfUpdateEnds("Internal")
              /\ UNCHANGED suStaged
    /\ UNCHANGED <<suSource, suTarget, suBackup, suRuns, suPrevious,
                   suSourceAtStart, suTargetAtStart, suTargetOps>>

\* a swap that deletes the target instead of renaming it to the backup path
ReplaceBackupByDelete(removed, renamed) ==
    /\ suPc = "backup"
    /\ IF suBackup # Absent /\ ~removed
         THEN /\ SelfUpdateEnds("Internal")
              /\ suStaged' = Absent
              /\ UNCHANGED <<suTarget, suBackup, suTargetOps>>
       ELSE IF ~renamed
         THEN /\ SelfUpdateEnds("Internal")
              /\ suStaged' = Absent
              /\ suBackup' = Absent
              /\ UNCHANGED <<suTarget, suTargetOps>>
       ELSE /\ suBackup' = Absent
            /\ suTarget' = Absent
            /\ suTargetOps' = Append(suTargetOps, "remove")
            /\ suPc' = "rename"
            /\ UNCHANGED <<suStatus, suStaged>>
    /\ UNCHANGED <<suSource, suRuns, suPrevious, suSourceAtStart,
                   suTargetAtStart>>

\* replace_binary: a stale backup is removed and the target is renamed to
\* the backup path
ReplaceBackup(removed, renamed) ==
    /\ suPc = "backup"
    /\ IF suBackup # Absent /\ ~removed
         THEN /\ SelfUpdateEnds("Internal")
              /\ suStaged' = Absent
              /\ UNCHANGED <<suTarget, suBackup, suTargetOps>>
       ELSE IF ~renamed
         THEN /\ SelfUpdateEnds("Internal")
              /\ suStaged' = Absent
              /\ suBackup' = Absent
              /\ UNCHANGED <<suTarget, suTargetOps>>
       ELSE /\ suBackup' = suTarget
            /\ suTarget' = Absent
            /\ suTargetOps' = Append(suTargetOps, "rename to backup")
            /\ suPc' = "rename"
            /\ UNCHANGED <<suStatus, suStaged>>
    /\ UNCHANGED <<suSource, suRuns, suPrevious, suSourceAtStart,
                   suTargetAtStart>>

\* a rollback that leaves the target path empty
restore_skipped(backup, rolled_back) == Absent

\* replace_binary: what fs::rename(&backup_target, target) leaves at the
\* target path
restore_from_backup(backup, rolled_back) ==
    IF rolled_back THEN backup ELSE Absent

\* replace_binary: the staged file is renamed to the target; where the
\* target existed, a failure renames the backup back, and a success removes
\* the backup or leaves it behind with a warning
ReplaceRename(renamed, rolled_back, cleaned) ==
    /\ suPc = "rename"
    /\ suStaged' = Absent
    /\ IF renamed
         THEN /\ suTarget' = suStaged
              /\ suTargetOps' = Append(suTargetOps, "rename from staged")
              /\ suBackup' = IF suTargetAtStart # Absent /\ cleaned
                              THEN Absent ELSE suBackup
              /\ SelfUpdateEnds("updated")
       ELSE IF suTargetAtStart # Absent /\ rolled_back
         THEN /\ suTarget' = restore_from_backup(suBackup, rolled_back)
              /\ suBackup' = Absent
              /\ suTargetOps' = Append(suTargetOps, "rename from backup")
              /\ SelfUpdateEnds("Internal")
       ELSE /\ SelfUpdateEnds("Internal")
            /\ UNCHANGED <<suTarget, suBackup, suTargetOps>>
    /\ UNCHANGED <<suSource, suRuns, suPrevious, suSourceAtStart,
                   suTargetAtStart>>

\* the process ends, and the next run can start
SelfUpdateExit ==
    /\ suPc = "done"
    /\ suPc' = "idle"
    /\ UNCHANGED <<suSource, suTarget, suBackup, suStaged, suRuns, suStatus,
                   suPrevious, suSourceAtStart, suTargetAtStart, suTargetOps>>

\* between two runs a new release is put at the source path
NewSource(bytes) ==
    /\ suPc = "idle"
    /\ suRuns < MaxSelfUpdates
    /\ bytes # suSource
    /\ suSource' = bytes
    /\ UNCHANGED <<suTarget, suBackup, suStaged, suPc, suRuns, suStatus,
                   suPrevious, suSourceAtStart, suTargetAtStart, suTargetOps>>

SelfUpdateInit ==
    /\ suSource \in Binaries \cup {Absent}
    /\ suTarget \in Binaries \cup {Absent}
    /\ suBackup \in {Absent, "release 1"}
    /\ suStaged = Absent
    /\ suPc = "idle"
    /\ suRuns = 0
    /\ suStatus = "none"
    /\ suPrevious = [status |-> "none", source |-> Absent]
    /\ suSourceAtStart = Absent
    /\ suTargetAtStart = Absent
    /\ suTargetOps = <<>>

\* the self update variables outside the self update specification
SelfUpdateIdle ==
    /\ suSource = Absent
    /\ suTarget = Absent
    /\ suBackup = Absent
    /\ suStaged = Absent
    /\ suPc = "idle"
    /\ suRuns = 0
    /\ suStatus = "none"
    /\ suPrevious = [status |-> "none", source |-> Absent]
    /\ suSourceAtStart = Absent
    /\ suTargetAtStart = Absent
    /\ suTargetOps = <<>>

SelfUpdateNext ==
    \/ SelfUpdateStart
    \/ \E written \in BOOLEAN : ReplaceStage(written)
    \/ \E removed \in BOOLEAN, renamed \in BOOLEAN : ReplaceBackup(removed, renamed)
    \/ \E renamed \in BOOLEAN, rolled_back \in BOOLEAN, cleaned \in BOOLEAN :
         ReplaceRename(renamed, rolled_back, cleaned)
    \/ SelfUpdateExit
    \/ \E bytes \in Binaries : NewSource(bytes)

-----------------------------------------------------------------------------
(* The runtime manager, self uninstall: uninstall and                        *)
(* ensure_safe_uninstall_path (crates/nodeup/src/commands/self_cmd.rs,       *)
(* crates/nodeup/src/paths.rs).                                              *)

\* str::to_ascii_lowercase, one character
ascii_lowercase_char(c) ==
    CASE c = "N" -> "n"
      [] c = "O" -> "o"
      [] c = "D" -> "d"
      [] c = "E" -> "e"
      [] c = "U" -> "u"
      [] c = "P" -> "p"
      [] c = "X" -> "x"
      [] OTHER -> c

\* str::to_ascii_lowercase
to_ascii_lowercase(s) == [i \in DOMAIN s |-> ascii_lowercase_char(s[i])]

\* str::ends_with
str_ends_with(s, suffix) ==
    /\ Len(suffix) <= Len(s)
    /\ Drop(s, Len(s) - Len(suffix)) = suffix

\* an ownership test that accepts every component
is_any_component(component) == TRUE

\* is_nodeup_owned_component
is_nodeup_owned_component(component) ==
    \/ to_ascii_lowercase(component) = <<"n", "o", "d", "e", "u", "p">>
    \/ str_starts_with(to_ascii_lowercase(component),
                       <<"n", "o", "d", "e", "u", "p", "-">>)
    \/ str_starts_with(to_ascii_lowercase(component),
                       <<"n", "o", "d", "e", "u", "p", "_">>)
    \/ str_ends_with(to_ascii_lowercase(component),
                     <<"-", "n", "o", "d", "e", "u", "p">>)
    \/ str_ends_with(to_ascii_lowercase(component),
                     <<"_", "n", "o", "d", "e", "u", "p">>)

\* ensure_safe_uninstall_path on an absolute path given by its normal
\* components: the file system root has no parent
ensure_safe_uninstall_path(path) ==
    IF path = <<>> THEN Err("InvalidInput")
    ELSE IF ~(\E i \in DOMAIN path : is_nodeup_owned_component(path[i]))
      THEN Err("InvalidInput")
    ELSE Ok(path)

\* the three roots, in the order uninstall visits them
UninstallRoots == <<"data_root", "cache_root", "config_root">>

\* uninstall: the directory that ensure_layout creates below the root
bootstrap_child(root) ==
    CASE root = "data_root" -> Some("toolchains")
      [] root = "cache_root" -> Some("downloads")
      [] root = "config_root" -> None

\* a path without a directory
Missing == [exists |-> FALSE, entries |-> {}]

\* a directory with its entries
Listing(entries) == [exists |-> TRUE, entries |-> entries]

\* one entry of a directory listing
DirEntry(name, is_dir, empty) ==
    [name |-> name, is_dir |-> is_dir, empty |-> empty]

\* path_has_artifacts: an entry other than the empty bootstrap directory
path_has_artifacts(listing, child) ==
    /\ listing.exists
    /\ \E e \in listing.entries :
         ~(child.some /\ e.name = child.value /\ e.is_dir /\ e.empty)

\* the path components of the samples
SampleComponents ==
    { <<"n", "o", "d", "e", "u", "p">>,
      <<"N", "o", "d", "e", "U", "p">>,
      <<"n", "o", "d", "e", "u", "p", "-", "x">>,
      <<"N", "O", "D", "E", "U", "P", "_", "x">>,
      <<"x", "-", "n", "o", "d", "e", "u", "p">>,
      <<"x", "_", "N", "o", "d", "e", "u", "p">>,
      <<".", "n", "o", "d", "e", "u", "p">>,
      <<"n", "o", "d", "e", "u", "p", "x">>,
      <<"x", "n", "o", "d", "e", "u", "p">>,
      <<"h", "o", "m", "e">> }

\* the normalized root paths of the samples: the file system root, a
\* directory below /u, a directory below /nodeup
SampleRootPaths ==
    {<<>>}
      \cup {<<<<"u">>, c>> : c \in SampleComponents}
      \cup {<<<<"n", "o", "d", "e", "u", "p">>, <<"d">>>>}

\* the directory listings of the samples
SampleListings ==
    { Missing,
      Listing({DirEntry("keep.txt", FALSE, FALSE)}),
      Listing({DirEntry("toolchains", TRUE, FALSE),
               DirEntry("downloads", TRUE, TRUE)}) }

UninstallInit ==
    /\ unPaths \in [{"data_root", "cache_root", "config_root"} -> SampleRootPaths]
    /\ unDirs \in [{unPaths[r] : r \in DOMAIN unPaths} -> SampleListings]
    /\ unPc = "idle"
    /\ unTargets = <<>>
    /\ unRemoved = <<>>
    /\ unStatus = "none"
    /\ unDirsAtEntry = unDirs
    /\ unRuns = 0

\* create_dir_all on a root
created_root(listing) == Listing(listing.entries)

\* create_dir_all on the child of a root: an existing directory stays
created_child(listing, child) ==
    IF \E e \in listing.entries : e.name = child
      THEN listing
      ELSE Listing(listing.entries \cup {DirEntry(child, TRUE, TRUE)})

\* ensure_layout on one path: the root for every root that has this path,
\* toolchains where it is the data root, downloads where it is the cache root
layout_of(path, listing) ==
    LET root == created_root(listing)
        data == IF unPaths["data_root"] = path
                  THEN created_child(root, "toolchains") ELSE root
    IN  IF unPaths["cache_root"] = path
          THEN created_child(data, "downloads") ELSE data

\* NodeupApp::new: ensure_layout before the command runs
EnsureLayout ==
    /\ unPc = "idle"
    /\ unRuns < MaxUninstalls
    /\ unRuns' = unRuns + 1
    /\ unDirs' = [p \in DOMAIN unDirs |-> layout_of(p, unDirs[p])]
    /\ unPc' = "ready"
    /\ unStatus' = "none"
    /\ unTargets' = <<>>
    /\ unRemoved' = <<>>
    /\ UNCHANGED <<unPaths, unDirsAtEntry>>

\* uninstall, first loop: the root is pushed when it has artifacts
deletion_target(root) ==
    IF path_has_artifacts(unDirs[unPaths[root]], bootstrap_child(root))
      THEN <<unPaths[root]>> ELSE <<>>

\* a first loop that goes on to the removals once the data root has passed
UninstallCheckDataRootOnly ==
    /\ unPc = "ready"
    /\ unDirsAtEntry' = unDirs
    /\ IF ~ensure_safe_uninstall_path(unPaths["data_root"]).ok
         THEN /\ unPc' = "done"
              /\ unStatus' = "InvalidInput"
              /\ UNCHANGED unTargets
         ELSE /\ unPc' = "remove"
              /\ unTargets' = deletion_target("data_root")
                                \o deletion_target("cache_root")
                                \o deletion_target("config_root")
              /\ UNCHANGED unStatus
    /\ UNCHANGED <<unPaths, unDirs, unRemoved, unRuns>>

\* uninstall, first loop: every root is normalized and checked, the first
\* refused root ends the command
UninstallCheck ==
    /\ unPc = "ready"
    /\ unDirsAtEntry' = unDirs
    /\ IF \E i \in DOMAIN UninstallRoots :
            ~ensure_safe_uninstall_path(unPaths[UninstallRoots[i]]).ok
         THEN /\ unPc' = "done"
              /\ unStatus' = "InvalidInput"
              /\ UNCHANGED unTargets
         ELSE /\ unPc' = "remove"
              /\ unTargets' = deletion_target("data_root")
                                \o deletion_target("cache_root")
                                \o deletion_target("config_root")
              /\ UNCHANGED unStatus
    /\ UNCHANGED <<unPaths, unDirs, unRemoved, unRuns>>

\* uninstall, second loop: fs::remove_dir_all on the next target; a path
\* that is gone already is an error, a failed removal may have removed
\* part of the tree
UninstallRemove(removed, partial) ==
    /\ unPc = "remove"
    /\ unTargets # <<>>
    /\ IF unDirs[Head(unTargets)].exists /\ removed
         THEN /\ unDirs' = [unDirs EXCEPT ![Head(unTargets)] = Missing]
              /\ unRemoved' = Append(unRemoved, Head(unTargets))
              /\ unTargets' = Tail(unTargets)
              /\ UNCHANGED <<unPc, unStatus>>
         ELSE /\ unDirs' = [unDirs EXCEPT ![Head(unTargets)] =
                              IF @.exists /\ partial THEN Listing({}) ELSE @]
              /\ unPc' = "done"
              /\ unStatus' = "Internal"
              /\ UNCHANGED <<unTargets, unRemoved>>
    /\ UNCHANGED <<unPaths, unDirsAtEntry, unRuns>>

\* uninstall: the status after the second loop
UninstallReport ==
    /\ unPc = "remove"
    /\ unTargets = <<>>
    /\ unStatus' = IF unRemoved = <<>> THEN "AlreadyClean" ELSE "Removed"
    /\ unPc' = "done"
    /\ UNCHANGED <<unPaths, unDirs, unTargets, unRemoved, unDirsAtEntry, unRuns>>

\* the process exits
UninstallExit ==
    /\ unPc = "done"
    /\ unPc' = "idle"
    /\ UNCHANGED <<unPaths, unDirs, unTargets, unRemoved, unStatus,
                   unDirsAtEntry, unRuns>>

UninstallNext ==
    \/ EnsureLayout
    \/ UninstallCheck
    \/ \E removed, partial \in BOOLEAN : UninstallRemove(removed, partial)
    \/ UninstallReport
    \/ UninstallExit

\* the uninstall variables outside the uninstall specification
UninstallIdle ==
    /\ unPaths = [r \in {"data_root", "cache_root", "config_root"} |->
                    <<<<"u">>, <<"n", "o", "d", "e", "u", "p">>>>]
    /\ unDirs = [p \in {<<<<"u">>, <<"n", "o", "d", "e", "u", "p">>>>} |-> Missing]
    /\ unPc = "idle"
    /\ unTargets = <<>>
    /\ unRemoved = <<>>
    /\ unStatus = "none"
    /\ unDirsAtEntry = unDirs
    /\ unRuns = 0

-----------------------------------------------------------------------------
(* The runtime manager, self upgrade-data: migrate_settings_schema,          *)
(* migrate_overrides_schema and extract_schema_version                       *)
(* (crates/nodeup/src/commands/self_cmd.rs).                                 *)

\* store.rs, overrides.rs: the current schema versions
SETTINGS_SCHEMA_VERSION == 1

OVERRIDES_SCHEMA_VERSION == 1

\* the two documents, in the order upgrade_data migrates them
UpgradeDocuments == <<"settings", "overrides">>

\* a path without a file
NoDocument == [exists |-> FALSE]

\* a TOML table: its schema_version value (absent, a 64-bit integer given
\* by its sign and its four 16-bit limbs, lowest first, or a value of
\* another type), its other fields, and whether those fields have
\* the types of the document
Document(version, fields, typed) ==
    [exists |-> TRUE, version |-> version, fields |-> fields, typed |-> typed]

NoVersion == [kind |-> "absent"]

IntegerVersion(negative, limbs) ==
    [kind |-> "integer", negative |-> negative, limbs |-> limbs]

\* a small number as a 64-bit integer
SmallVersion(n) == IntegerVersion(FALSE, <<n, 0, 0, 0>>)

StringVersion == [kind |-> "string"]

\* the schema_version values of the samples
SampleVersions ==
    {NoVersion, StringVersion}
      \cup {SmallVersion(n) : n \in 0 .. 2}
      \cup { IntegerVersion(TRUE, <<1, 0, 0, 0>>),
             IntegerVersion(FALSE, <<0, 0, 1, 0>>),
             IntegerVersion(FALSE, <<1, 0, 1, 0>>),
             IntegerVersion(FALSE, <<0, 1, 0, 0>>) }

\* the documents of the samples
SampleDocuments ==
    {NoDocument}
      \cup {Document(v, f, t) : v \in SampleVersions,
                               f \in {"fields a", "fields b"},
                               t \in BOOLEAN}

\* SettingsFile::default, OverridesFile::default as save writes them
default_document(current) == Document(SmallVersion(current), "defaults", TRUE)

\* the schema version constant of a document
current_schema(d) ==
    IF d = "settings" THEN SETTINGS_SCHEMA_VERSION ELSE OVERRIDES_SCHEMA_VERSION

\* i64 as u32: the two low limbs
as_u32(limbs) == <<limbs[1], limbs[2]>>

\* a u32 above a small number
u32_above(value, n) == value[2] > 0 \/ value[1] > n

\* a u32 equal to a small number
u32_equals(value, n) == value[2] = 0 /\ value[1] = n

\* extract_schema_version
extract_schema_version(doc) ==
    IF doc.version.kind = "absent" THEN Ok(<<0, 0>>)
    ELSE IF doc.version.kind # "integer" THEN Err("InvalidInput")
    ELSE IF doc.version.negative THEN Err("InvalidInput")
    ELSE Ok(as_u32(doc.version.limbs))

\* toml::from_str::<SettingsFile>, toml::from_str::<OverridesFile>: the
\* fields have their types and schema_version is a u32
parses_as_struct(doc) ==
    /\ doc.typed
    /\ doc.version.kind = "integer"
    /\ ~doc.version.negative
    /\ doc.version.limbs[3] = 0
    /\ doc.version.limbs[4] = 0

\* migrate_settings_legacy, migrate_overrides_legacy: the known fields under
\* the current schema version
migrate_legacy(doc, current) ==
    IF doc.typed
      THEN Ok(Document(SmallVersion(current), doc.fields, TRUE))
      ELSE Err("InvalidInput")

\* migrate_settings_schema, migrate_overrides_schema: the status or error
\* and the document to write, if any
migrate_schema(doc, current) ==
    IF ~doc.exists
      THEN [status |-> "created", write |-> Some(default_document(current))]
    ELSE IF ~extract_schema_version(doc).ok
      THEN [status |-> "InvalidInput", write |-> None]
    ELSE IF u32_above(extract_schema_version(doc).value, current)
      THEN [status |-> "InvalidInput", write |-> None]
    ELSE IF u32_equals(extract_schema_version(doc).value, current)
      THEN [status |-> IF parses_as_struct(doc)
                         THEN "already-current" ELSE "Internal",
            write |-> None]
    ELSE IF ~migrate_legacy(doc, current).ok
      THEN [status |-> "InvalidInput", write |-> None]
    ELSE [status |-> "upgraded", write |-> Some(migrate_legacy(doc, current).value)]

UpgradeInit ==
    /\ udDocs \in [{"settings", "overrides"} -> SampleDocuments]
    /\ udPc = "idle"
    /\ udIndex = 1
    /\ udStatus = [d \in {"settings", "overrides"} |-> "none"]
    /\ udResult = "none"
    /\ udDocsAtStart = udDocs
    /\ udRuns = 0

\* upgrade_data is entered
UpgradeStart ==
    /\ udPc = "idle"
    /\ udRuns < MaxUpgradeRuns
    /\ udRuns' = udRuns + 1
    /\ udPc' = "migrate"
    /\ udIndex' = 1
    /\ udStatus' = [d \in {"settings", "overrides"} |-> "none"]
    /\ udResult' = "none"
    /\ udDocsAtStart' = udDocs
    /\ UNCHANGED udDocs

\* migrate_settings_schema, then migrate_overrides_schema: the document is
\* read and, where one is to be written, saved; an error ends the command
MigrateDocument(saved) ==
    /\ udPc = "migrate"
    /\ udIndex <= Len(UpgradeDocuments)
    /\ LET d == UpgradeDocuments[udIndex]
           m == migrate_schema(udDocs[d], current_schema(d))
       IN  IF m.write.some /\ ~saved
             THEN /\ udStatus' = [udStatus EXCEPT ![d] = "Internal"]
                  /\ udResult' = "Internal"
                  /\ udPc' = "done"
                  /\ UNCHANGED <<udDocs, udIndex>>
           ELSE IF m.status \in {"InvalidInput", "Internal"}
             THEN /\ udStatus' = [udStatus EXCEPT ![d] = m.status]
                  /\ udResult' = m.status
                  /\ udPc' = "done"
                  /\ UNCHANGED <<udDocs, udIndex>>
           ELSE /\ udStatus' = [udStatus EXCEPT ![d] = m.status]
                /\ udDocs' = [udDocs EXCEPT ![d] =
                                IF m.write.some THEN m.write.value ELSE @]
                /\ udIndex' = udIndex + 1
                /\ UNCHANGED <<udPc, udResult>>
    /\ UNCHANGED <<udDocsAtStart, udRuns>>

\* upgrade_data: the overall status
UpgradeReport ==
    /\ udPc = "migrate"
    /\ udIndex > Len(UpgradeDocuments)
    /\ udResult' = IF \E d \in DOMAIN udStatus :
                        udStatus[d] \in {"created", "upgraded"}
                     THEN "upgraded" ELSE "already-current"
    /\ udPc' = "done"
    /\ UNCHANGED <<udDocs, udIndex, udStatus, udDocsAtStart, udRuns>>

\* the process exits
UpgradeExit ==
    /\ udPc = "done"
    /\ udPc' = "idle"
    /\ UNCHANGED <<udDocs, udIndex, udStatus, udResult, udDocsAtStart, udRuns>>

UpgradeNext ==
    \/ UpgradeStart
    \/ \E saved \in BOOLEAN : MigrateDocument(saved)
    \/ UpgradeReport
    \/ UpgradeExit

\* the upgrade-data variables outside the upgrade-data specification
UpgradeIdle ==
    /\ udDocs = [d \in {"settings", "overrides"} |-> NoDocument]
    /\ udPc = "idle"
    /\ udIndex = 1
    /\ udStatus = [d \in {"settings", "overrides"} |-> "none"]
    /\ udResult = "none"
    /\ udDocsAtStart = udDocs
    /\ udRuns = 0

-----------------------------------------------------------------------------
(* The runtime manager, toolchain uninstall: uninstall and                   *)
(* selector_references_version (crates/nodeup/src/commands/toolchain.rs,     *)
(* crates/nodeup/src/store.rs).                                              *)

\* canonical_version_selector: v and the version, for an exact version
canonical_version_selector(selector) ==
    IF parse(selector).ok /\ parse(selector).value.kind = "Version"
      THEN Some(<<"v">> \o Version_to_string(parse(selector).value.version))
      ELSE None

\* a reference test on the text of the selector
selector_equals_version(selector, target_version) ==
    selector = target_version

\* selector_references_version
selector_references_version(selector, target_version) ==
    /\ canonical_version_selector(selector).some
    /\ canonical_version_selector(selector).value = target_version

\* uninstall: the versions of the requested selectors, each once, in order
RECURSIVE unique_versions(_, _)
unique_versions(runtimes, seen) ==
    IF runtimes = <<>> THEN seen
    ELSE unique_versions(
           Tail(runtimes),
           IF \E i \in DOMAIN seen :
                seen[i] = canonical_version_selector(Head(runtimes)).value
             THEN seen
             ELSE Append(seen, canonical_version_selector(Head(runtimes)).value))

\* uninstall, preflight of one version: the error it ends with, if any
preflight_of(version) ==
    IF tcDefault.some /\ selector_references_version(tcDefault.value, version)
      THEN "Conflict"
    ELSE IF \E s \in tcOverrides : selector_references_version(s, version)
      THEN "Conflict"
    ELSE IF version \notin tcRuntimes THEN "NotFound"
    ELSE "none"

\* uninstall, preflight loop: the error of the first version that has one
preflight(versions) ==
    IF \A i \in DOMAIN versions : preflight_of(versions[i]) = "none"
      THEN "none"
      ELSE preflight_of(versions[
             CHOOSE i \in DOMAIN versions :
               /\ preflight_of(versions[i]) # "none"
               /\ \A j \in 1 .. (i - 1) : preflight_of(versions[j]) = "none"])

\* uninstall: tracked_selectors.retain
retain_tracked(tracked, removed) ==
    SelectSeq(tracked,
              LAMBDA s : IF canonical_version_selector(s).some
                           THEN \A i \in DOMAIN removed :
                                  removed[i] # canonical_version_selector(s).value
                           ELSE \A i \in DOMAIN removed : removed[i] # s)

\* the selector strings of the samples
Sel100 == <<"1", ".", "0", ".", "0">>

SelV100 == <<"v", "1", ".", "0", ".", "0">>

Sel110 == <<"1", ".", "1", ".", "0">>

SelV110 == <<"v", "1", ".", "1", ".", "0">>

SelLts == <<"l", "t", "s">>

SelName == <<"a">>

VersionSelectors == {Sel100, SelV100, Sel110, SelV110}

StoredSelectors == VersionSelectors \cup {SelLts, SelName}

\* the selectors of the requests of the samples
RequestSelectors == {Sel100, SelV100, SelV110, SelLts}

\* the requests of the samples: up to MaxUninstallArgs selectors
UninstallRequests ==
    UNION {[1 .. n -> RequestSelectors] : n \in 0 .. MaxUninstallArgs}

ToolchainInit ==
    /\ tcDefault \in {None} \cup {Some(s) : s \in StoredSelectors}
    /\ tcOverrides \in {{}, {Sel100}, {SelV110}, {SelLts, SelName}}
    /\ tcTracked \in {<<SelV100>>, <<Sel110, SelLts>>}
    /\ tcRuntimes \in SUBSET {SelV100, SelV110}
    /\ tcPc = "idle"
    /\ tcRequested = <<>>
    /\ tcUnique = <<>>
    /\ tcStatus = "none"
    /\ tcSaves = 0
    /\ tcRuntimesAtStart = tcRuntimes
    /\ tcRuns = 0

\* uninstall up to the end of the preflight loop: the selectors are parsed,
\* then every version is checked before anything is removed
UninstallPreflight(runtimes) ==
    /\ tcPc = "idle"
    /\ tcRuns < MaxToolchainRuns
    /\ tcRuns' = tcRuns + 1
    /\ tcRequested' = runtimes
    /\ tcRuntimesAtStart' = tcRuntimes
    /\ tcSaves' = 0
    /\ IF runtimes = <<>>
            \/ \E i \in DOMAIN runtimes : ~canonical_version_selector(runtimes[i]).some
         THEN /\ tcStatus' = "InvalidInput"
              /\ tcPc' = "done"
              /\ tcUnique' = <<>>
       ELSE IF preflight(unique_versions(runtimes, <<>>)) # "none"
         THEN /\ tcStatus' = preflight(unique_versions(runtimes, <<>>))
              /\ tcPc' = "done"
              /\ tcUnique' = <<>>
       ELSE /\ tcStatus' = "none"
            /\ tcPc' = "remove"
            /\ tcUnique' = unique_versions(runtimes, <<>>)
    /\ UNCHANGED <<tcDefault, tcOverrides, tcTracked, tcRuntimes>>

\* uninstall, removal loop: remove_runtime on the next version
RemoveRuntime(removed) ==
    /\ tcPc = "remove"
    /\ tcUnique # <<>>
    /\ IF Head(tcUnique) \notin tcRuntimes
         THEN /\ tcStatus' = "NotFound"
              /\ tcPc' = "done"
              /\ UNCHANGED <<tcRuntimes, tcUnique>>
       ELSE IF ~removed
         THEN /\ tcStatus' = "Internal"
              /\ tcPc' = "done"
              /\ UNCHANGED <<tcRuntimes, tcUnique>>
       ELSE /\ tcRuntimes' = tcRuntimes \ {Head(tcUnique)}
            /\ tcUnique' = Tail(tcUnique)
            /\ UNCHANGED <<tcStatus, tcPc>>
    /\ UNCHANGED <<tcDefault, tcOverrides, tcTracked, tcRequested, tcSaves,
                   tcRuntimesAtStart, tcRuns>>

\* uninstall: the tracked selectors of the removed versions are dropped and
\* the settings are saved
SaveTracked(saved) ==
    /\ tcPc = "remove"
    /\ tcUnique = <<>>
    /\ tcPc' = "done"
    /\ IF saved
         THEN /\ tcTracked' = retain_tracked(tcTracked,
                                             unique_versions(tcRequested, <<>>))
              /\ tcSaves' = tcSaves + 1
              /\ tcStatus' = "removed"
         ELSE /\ tcStatus' = "Internal"
              /\ UNCHANGED <<tcTracked, tcSaves>>
    /\ UNCHANGED <<tcDefault, tcOverrides, tcRuntimes, tcRequested, tcUnique,
                   tcRuntimesAtStart, tcRuns>>

\* the process exits: what it held in memory is gone
ToolchainExit ==
    /\ tcPc = "done"
    /\ tcPc' = "idle"
    /\ tcRequested' = <<>>
    /\ tcUnique' = <<>>
    /\ tcStatus' = "none"
    /\ tcSaves' = 0
    /\ tcRuntimesAtStart' = tcRuntimes
    /\ UNCHANGED <<tcDefault, tcOverrides, tcTracked, tcRuntimes, tcRuns>>

ToolchainNext ==
    \/ \E runtimes \in UninstallRequests : UninstallPreflight(runtimes)
    \/ \E removed \in BOOLEAN : RemoveRuntime(removed)
    \/ \E saved \in BOOLEAN : SaveTracked(saved)
    \/ ToolchainExit

\* the toolchain variables outside the toolchain specification
ToolchainIdle ==
    /\ tcDefault = None
    /\ tcOverrides = {}
    /\ tcTracked = <<>>
    /\ tcRuntimes = {}
    /\ tcPc = "idle"
    /\ tcRequested = <<>>
    /\ tcUnique = <<>>
    /\ tcStatus = "none"
    /\ tcSaves = 0
    /\ tcRuntimesAtStart = tcRuntimes
    /\ tcRuns = 0

-----------------------------------------------------------------------------
(* The runtime manager, exit codes (crates/nodeup/src/errors.rs).            *)

\* ErrorKind::exit_code of the runtime manager
NodeupErrorKind_exit_code(kind) ==
    CASE kind = "Internal" -> 1
      [] kind = "InvalidInput" -> 2
      [] kind = "UnsupportedPlatform" -> 3
      [] kind = "Network" -> 4
      [] kind = "NotFound" -> 5
      [] kind = "Conflict" -> 6
      [] kind = "NotImplemented" -> 7

-----------------------------------------------------------------------------
(* The runtime manager, the settings document and the commands that write   *)
(* it: Store::track_selector, default, toolchain link and uninstall, self   *)
(* upgrade-data (crates/nodeup/src/store.rs, crates/nodeup/src/commands).    *)

\* the settings file: absent, or a document; schema_version 0 stands for a
\* legacy document, which has no schema_version field
NoSettings == [exists |-> FALSE]

SettingsFile(schema_version, default_selector, linked_runtimes, tracked_selectors) ==
    [exists |-> TRUE, schema_version |-> schema_version,
     default_selector |-> default_selector,
     linked_runtimes |-> linked_runtimes,
     tracked_selectors |-> tracked_selectors]

\* SettingsFile::default
SettingsFile_default == SettingsFile(SETTINGS_SCHEMA_VERSION, None, {}, <<>>)

\* Store::load_settings
load_settings(file) ==
    IF ~file.exists THEN Ok(SettingsFile_default)
    ELSE IF file.schema_version # SETTINGS_SCHEMA_VERSION THEN Err("InvalidInput")
    ELSE Ok(file)

\* BTreeSet::insert followed by into_iter: the place of the selector in the
\* byte order of the strings, nothing added when it is there already
RECURSIVE btree_insert(_, _)
btree_insert(sorted, selector) ==
    IF sorted = <<>> THEN <<selector>>
    ELSE IF Head(sorted) = selector THEN sorted
    ELSE IF StringLess(selector, Head(sorted)) THEN <<selector>> \o sorted
    ELSE <<Head(sorted)>> \o btree_insert(Tail(sorted), selector)

\* tracked_selectors.into_iter().collect::<BTreeSet<String>>()
RECURSIVE btree_collect(_, _)
btree_collect(selectors, collected) ==
    IF selectors = <<>> THEN collected
    ELSE btree_collect(Tail(selectors),
                       btree_insert(collected, Head(selectors)))

\* Store::track_selector: the document it saves
track_selector(settings, selector) ==
    [settings EXCEPT !.tracked_selectors =
       btree_insert(btree_collect(settings.tracked_selectors, <<>>), selector)]

\* migrate_settings_legacy: the fields are copied under the current version
migrate_settings_legacy(file) ==
    SettingsFile(SETTINGS_SCHEMA_VERSION, file.default_selector,
                 file.linked_runtimes, file.tracked_selectors)

\* the tracked lists and the documents a run may find
SampleTracked ==
    {<<>>, <<Sel100, SelLts>>, <<SelLts, Sel100>>, <<SelLts, SelLts>>}

SortedTracked == {<<>>, <<Sel100, SelLts>>, <<SelLts, SelV110>>}

TrackedInputs == {Sel100, SelV110, SelLts, SelName}

SampleSettings ==
    {NoSettings}
      \cup {SettingsFile(0, None, {}, t) : t \in SampleTracked}
      \cup {SettingsFile(SETTINGS_SCHEMA_VERSION, d, {}, t) :
              d \in {None, Some(SelLts)}, t \in SortedTracked}

SettingsInit ==
    /\ stFile \in SampleSettings
    /\ stOps = 0
    /\ stLast = "none"

\* a command ends: the document it leaves and its name
SettingsCommand(name, file) ==
    /\ stOps < MaxSettingsOps
    /\ stOps' = stOps + 1
    /\ stLast' = name
    /\ stFile' = file

\* override set and toolchain install: track_selector on the loaded settings
TrackSelector(selector) ==
    SettingsCommand("track",
      IF load_settings(stFile).ok
        THEN track_selector(load_settings(stFile).value, selector)
        ELSE stFile)

\* default: the selector is saved as default_selector, then tracked; the
\* second write may fail
DefaultCommand(selector, tracked) ==
    SettingsCommand("default",
      IF ~load_settings(stFile).ok THEN stFile
      ELSE IF tracked
        THEN track_selector(
               [load_settings(stFile).value EXCEPT
                  !.default_selector = Some(selector)], selector)
      ELSE [load_settings(stFile).value EXCEPT
              !.default_selector = Some(selector)])

\* toolchain link: the name is saved in linked_runtimes, then tracked
Link(name, tracked) ==
    SettingsCommand("link",
      IF ~load_settings(stFile).ok THEN stFile
      ELSE IF tracked
        THEN track_selector(
               [load_settings(stFile).value EXCEPT
                  !.linked_runtimes = @ \cup {name}], name)
      ELSE [load_settings(stFile).value EXCEPT
              !.linked_runtimes = @ \cup {name}])

\* toolchain uninstall of versions the default does not reference: the
\* selectors of the removed versions are dropped and the settings saved
UninstallRetain(removed) ==
    /\ load_settings(stFile).ok
    /\ \A i \in DOMAIN removed :
         ~(/\ load_settings(stFile).value.default_selector.some
           /\ selector_references_version(
                load_settings(stFile).value.default_selector.value, removed[i]))
    /\ SettingsCommand("uninstall",
         [load_settings(stFile).value EXCEPT
            !.tracked_selectors = retain_tracked(@, removed)])

\* self upgrade-data, migrate_settings_schema: defaults for a missing file, a
\* current document left as it is, a legacy document migrated and saved
UpgradeSettings ==
    SettingsCommand("upgrade-data",
      IF ~stFile.exists THEN SettingsFile_default
      ELSE IF stFile.schema_version = SETTINGS_SCHEMA_VERSION THEN stFile
      ELSE migrate_settings_legacy(stFile))

SettingsNext ==
    \/ \E selector \in TrackedInputs : TrackSelector(selector)
    \/ \E selector \in TrackedInputs, tracked \in BOOLEAN :
         DefaultCommand(selector, tracked)
    \/ \E tracked \in BOOLEAN : Link(SelName, tracked)
    \/ \E removed \in {<<SelV100>>, <<SelV110>>, <<SelV100, SelV110>>} :
         UninstallRetain(removed)
    \/ UpgradeSettings

SettingsIdle ==
    /\ stFile = NoSettings
    /\ stOps = 0
    /\ stLast = "none"

-----------------------------------------------------------------------------
(* The runtime manager, delegated processes: run_command and status_details *)
(* with their two callers, the shim dispatch and the run command            *)
(* (crates/nodeup/src/process.rs, dispatch.rs, commands/run_cmd.rs,          *)
(* main.rs).                                                                 *)

\* ExitStatus of a child that exited normally with the code
Exited(code) == [code |-> Some(code), signal |-> None]

\* ExitStatus of a child that a signal terminated: it has no exit code
Signaled(signal) == [code |-> None, signal |-> Some(signal)]

\* the statuses a child can end with
ExitStatuses ==
    {Exited(n) : n \in 0 .. MaxExitCode}
      \cup {Signaled(s) : s \in 1 .. MaxSignal}

\* a reduction that reports a signal the way a shell does
status_details_as_shell(status) ==
    [exit_code |-> IF status.code.some THEN status.code.value
                   ELSE 128 + status.signal.value,
     signal |-> status.signal]

\* status_details: status.code().unwrap_or(1), and the signal
status_details(status) ==
    [exit_code |-> IF status.code.some THEN status.code.value ELSE 1,
     signal |-> status.signal]

\* run_command: command.status() fails with NotFound, else the exit code of
\* the termination
run_command(spawned, status) ==
    IF ~spawned THEN Err("NotFound")
    ELSE Ok(status_details(status).exit_code)

DelegateInit ==
    /\ dgEntry = "none"
    /\ dgPc = "idle"
    /\ dgStatus = Exited(0)
    /\ dgLogged = None
    /\ dgReturn = NoResult
    /\ dgExit = 0
    /\ dgRuns = 0

\* main.rs run: the manager is started under a managed alias (the shim
\* dispatch) or as nodeup run
DelegateStart(entry) ==
    /\ dgPc = "idle"
    /\ dgRuns < MaxDelegations
    /\ dgRuns' = dgRuns + 1
    /\ dgEntry' = entry
    /\ dgPc' = "resolve"
    /\ dgLogged' = None
    /\ dgReturn' = NoResult
    /\ UNCHANGED <<dgStatus, dgExit>>

\* dispatch_managed_alias_if_needed, run_cmd::execute up to the spawn: the
\* runtime is resolved and the executable looked up
DelegateResolve(resolved, available) ==
    /\ dgPc = "resolve"
    /\ IF ~resolved
         THEN dgReturn' = Err("InvalidInput") /\ dgPc' = "return"
       ELSE IF ~available
         THEN dgReturn' = Err("NotFound") /\ dgPc' = "return"
       ELSE dgPc' = "spawn" /\ UNCHANGED dgReturn
    /\ UNCHANGED <<dgEntry, dgStatus, dgLogged, dgExit, dgRuns>>

\* run_command: the child runs to its end; both callers return its exit
\* code, run after printing it
DelegateRun(spawned, status) ==
    /\ dgPc = "spawn"
    /\ dgStatus' = IF spawned THEN status ELSE dgStatus
    /\ dgLogged' = IF spawned THEN Some(status_details(status)) ELSE None
    /\ dgReturn' = run_command(spawned, status)
    /\ dgPc' = "return"
    /\ UNCHANGED <<dgEntry, dgExit, dgRuns>>

\* main: std::process::exit with the code, or with the code of the error
DelegateExit ==
    /\ dgPc = "return"
    /\ dgExit' = IF dgReturn.ok THEN dgReturn.value
                 ELSE NodeupErrorKind_exit_code(dgReturn.kind)
    /\ dgPc' = "exited"
    /\ UNCHANGED <<dgEntry, dgStatus, dgLogged, dgReturn, dgRuns>>

\* the manager process is gone, the next one can start
DelegateReset ==
    /\ dgPc = "exited"
    /\ dgPc' = "idle"
    /\ dgEntry' = "none"
    /\ dgStatus' = Exited(0)
    /\ dgLogged' = None
    /\ dgReturn' = NoResult
    /\ dgExit' = 0
    /\ UNCHANGED dgRuns

DelegateNext ==
    \/ \E entry \in {"dispatch", "run"} : DelegateStart(entry)
    \/ \E resolved, available \in BOOLEAN : DelegateResolve(resolved, available)
    \/ \E spawned \in BOOLEAN, status \in ExitStatuses :
         DelegateRun(spawned, status)
    \/ DelegateExit
    \/ DelegateReset

\* the delegation variables outside the delegation specification
DelegateIdle ==
    /\ dgEntry = "none"
    /\ dgPc = "idle"
    /\ dgStatus = Exited(0)
    /\ dgLogged = None
    /\ dgReturn = NoResult
    /\ dgExit = 0
    /\ dgRuns = 0

Init ==
    /\ InstallInit
    /\ SelIdle
    /\ ResolveIdle
    /\ FetchIdle
    /\ DocIdle
    /\ BumpIdle
    /\ WorkspaceIdle
    /\ RunIdle
    /\ ManifestIdle
    /\ SelfUpdateIdle
    /\ UninstallIdle
    /\ UpgradeIdle
    /\ ToolchainIdle
    /\ SettingsIdle
    /\ DelegateIdle

Next ==
    InstallNext
      /\ UNCHANGED <<selVars, resolveVars, fetchVars, docVars, bumpVars, wsVars,
                     runVars, manifestVars, selfVars, uninstallVars, upgradeVars,
                     toolchainVars, settingsVars, delegateVars>>

Spec == Init /\ [][Next]_vars

SelectorInit ==
    /\ SelInit
    /\ InstallIdle
    /\ ResolveIdle
    /\ FetchIdle
    /\ DocIdle
    /\ BumpIdle
    /\ WorkspaceIdle
    /\ RunIdle
    /\ ManifestIdle
    /\ SelfUpdateIdle
    /\ UninstallIdle
    /\ UpgradeIdle
    /\ ToolchainIdle
    /\ SettingsIdle
    /\ DelegateIdle

SelectorNext ==
    SelNext
      /\ UNCHANGED <<installVars, resolveVars, fetchVars, docVars, bumpVars, wsVars,
                     runVars, manifestVars, selfVars, uninstallVars, upgradeVars,
                     toolchainVars, settingsVars, delegateVars>>

SpecSelector == SelectorInit /\ [][SelectorNext]_vars

ResolverInit ==
    /\ ResolveInit
    /\ InstallIdle
    /\ SelIdle
    /\ FetchIdle
    /\ DocIdle
    /\ BumpIdle
    /\ WorkspaceIdle
    /\ RunIdle
    /\ ManifestIdle
    /\ SelfUpdateIdle
    /\ UninstallIdle
    /\ UpgradeIdle
    /\ ToolchainIdle
    /\ SettingsIdle
    /\ DelegateIdle

ResolverNext ==
    ResolveNext
      /\ UNCHANGED <<installVars, selVars, fetchVars, docVars, bumpVars, wsVars,
                     runVars, manifestVars, selfVars, uninstallVars, upgradeVars,
                     toolchainVars, settingsVars, delegateVars>>

SpecResolver == ResolverInit /\ [][ResolverNext]_vars

ReleaseIndexInit ==
    /\ FetchInit
    /\ InstallIdle
    /\ SelIdle
    /\ ResolveIdle
    /\ DocIdle
    /\ BumpIdle
    /\ WorkspaceIdle
    /\ RunIdle
    /\ ManifestIdle
    /\ SelfUpdateIdle
    /\ UninstallIdle
    /\ UpgradeIdle
    /\ ToolchainIdle
    /\ SettingsIdle
    /\ DelegateIdle

ReleaseIndexNext ==
    FetchNext
      /\ UNCHANGED <<installVars, selVars, resolveVars, docVars, bumpVars, wsVars,
                     runVars, manifestVars, selfVars, uninstallVars, upgradeVars,
                     toolchainVars, settingsVars, delegateVars>>

SpecReleaseIndex == ReleaseIndexInit /\ [][ReleaseIndexNext]_vars

DocumentsInit ==
    /\ DocInit
    /\ InstallIdle
    /\ SelIdle
    /\ ResolveIdle
    /\ FetchIdle
    /\ BumpIdle
    /\ WorkspaceIdle
    /\ RunIdle
    /\ ManifestIdle
    /\ SelfUpdateIdle
    /\ UninstallIdle
    /\ UpgradeIdle
    /\ ToolchainIdle
    /\ SettingsIdle
    /\ DelegateIdle

DocumentsNext ==
    DocNext
      /\ UNCHANGED <<installVars, selVars, resolveVars, fetchVars, bumpVars, wsVars,
                     runVars, manifestVars, selfVars, uninstallVars, upgradeVars,
                     toolchainVars, settingsVars, delegateVars>>

SpecDocuments == DocumentsInit /\ [][DocumentsNext]_vars

BumpSpecInit ==
    /\ BumpInit
    /\ InstallIdle
    /\ SelIdle
    /\ ResolveIdle
    /\ FetchIdle
    /\ DocIdle
    /\ WorkspaceIdle
    /\ RunIdle
    /\ ManifestIdle
    /\ SelfUpdateIdle
    /\ UninstallIdle
    /\ UpgradeIdle
    /\ ToolchainIdle
    /\ SettingsIdle
    /\ DelegateIdle

BumpSpecNext ==
    BumpNext
      /\ UNCHANGED <<installVars, selVars, resolveVars, fetchVars, docVars, wsVars,
                     runVars, manifestVars, selfVars, uninstallVars, upgradeVars,
                     toolchainVars, settingsVars, delegateVars>>

SpecBump == BumpSpecInit /\ [][BumpSpecNext]_vars

WorkspaceSpecInit ==
    /\ WorkspaceInit
    /\ InstallIdle
    /\ SelIdle
    /\ ResolveIdle
    /\ FetchIdle
    /\ DocIdle
    /\ BumpIdle
    /\ RunIdle
    /\ ManifestIdle
    /\ SelfUpdateIdle
    /\ UninstallIdle
    /\ UpgradeIdle
    /\ ToolchainIdle
    /\ SettingsIdle
    /\ DelegateIdle

WorkspaceSpecNext ==
    WorkspaceNext
      /\ UNCHANGED <<installVars, selVars, resolveVars, fetchVars, docVars, bumpVars,
                     runVars, manifestVars, selfVars, uninstallVars, upgradeVars,
                     toolchainVars, settingsVars, delegateVars>>

SpecWorkspace == WorkspaceSpecInit /\ [][WorkspaceSpecNext]_vars

ReleaseInit ==
    /\ RunInit
    /\ InstallIdle
    /\ SelIdle
    /\ ResolveIdle
    /\ FetchIdle
    /\ DocIdle
    /\ BumpIdle
    /\ WorkspaceIdle
    /\ ManifestIdle
    /\ SelfUpdateIdle
    /\ UninstallIdle
    /\ UpgradeIdle
    /\ ToolchainIdle
    /\ SettingsIdle
    /\ DelegateIdle

ReleaseNext ==
    RunNext
      /\ UNCHANGED <<installVars, selVars, resolveVars, fetchVars, docVars, bumpVars,
                     wsVars, manifestVars, selfVars, uninstallVars, upgradeVars,
                     toolchainVars, settingsVars, delegateVars>>

SpecRelease == ReleaseInit /\ [][ReleaseNext]_vars

ManifestsInit ==
    /\ ManifestInit
    /\ InstallIdle
    /\ SelIdle
    /\ ResolveIdle
    /\ FetchIdle
    /\ DocIdle
    /\ BumpIdle
    /\ WorkspaceIdle
    /\ RunIdle
    /\ SelfUpdateIdle
    /\ UninstallIdle
    /\ UpgradeIdle
    /\ ToolchainIdle
    /\ SettingsIdle
    /\ DelegateIdle

ManifestsNext ==
    ManifestNext
      /\ UNCHANGED <<installVars, selVars, resolveVars, fetchVars, docVars, bumpVars,
                     wsVars, runVars, selfVars, uninstallVars, upgradeVars,
                     toolchainVars, settingsVars, delegateVars>>

SpecManifests == ManifestsInit /\ [][ManifestsNext]_vars

SelfInit ==
    /\ SelfUpdateInit
    /\ InstallIdle
    /\ SelIdle
    /\ ResolveIdle
    /\ FetchIdle
    /\ DocIdle
    /\ BumpIdle
    /\ WorkspaceIdle
    /\ RunIdle
    /\ ManifestIdle
    /\ UninstallIdle
    /\ UpgradeIdle
    /\ ToolchainIdle
    /\ SettingsIdle
    /\ DelegateIdle

SelfNext ==
    SelfUpdateNext
      /\ UNCHANGED <<installVars, selVars, resolveVars, fetchVars, docVars, bumpVars,
                     wsVars, runVars, manifestVars, uninstallVars, upgradeVars,
                     toolchainVars, settingsVars, delegateVars>>

SpecSelfUpdate == SelfInit /\ [][SelfNext]_vars

SelfUninstallInit ==
    /\ UninstallInit
    /\ InstallIdle
    /\ SelIdle
    /\ ResolveIdle
    /\ FetchIdle
    /\ DocIdle
    /\ BumpIdle
    /\ WorkspaceIdle
    /\ RunIdle
    /\ ManifestIdle
    /\ SelfUpdateIdle
    /\ UpgradeIdle
    /\ ToolchainIdle
    /\ SettingsIdle
    /\ DelegateIdle

SelfUninstallNext ==
    UninstallNext
      /\ UNCHANGED <<installVars, selVars, resolveVars, fetchVars, docVars, bumpVars,
                     wsVars, runVars, manifestVars, selfVars, upgradeVars,
                     toolchainVars, settingsVars, delegateVars>>

SpecSelfUninstall == SelfUninstallInit /\ [][SelfUninstallNext]_vars

UpgradeDataInit ==
    /\ UpgradeInit
    /\ InstallIdle
    /\ SelIdle
    /\ ResolveIdle
    /\ FetchIdle
    /\ DocIdle
    /\ BumpIdle
    /\ WorkspaceIdle
    /\ RunIdle
    /\ ManifestIdle
    /\ SelfUpdateIdle
    /\ UninstallIdle
    /\ ToolchainIdle
    /\ SettingsIdle
    /\ DelegateIdle

UpgradeDataNext ==
    UpgradeNext
      /\ UNCHANGED <<installVars, selVars, resolveVars, fetchVars, docVars, bumpVars,
                     wsVars, runVars, manifestVars, selfVars, uninstallVars,
                     toolchainVars, settingsVars, delegateVars>>

SpecUpgradeData == UpgradeDataInit /\ [][UpgradeDataNext]_vars

ToolchainSpecInit ==
    /\ ToolchainInit
    /\ InstallIdle
    /\ SelIdle
    /\ ResolveIdle
    /\ FetchIdle
    /\ DocIdle
    /\ BumpIdle
    /\ WorkspaceIdle
    /\ RunIdle
    /\ ManifestIdle
    /\ SelfUpdateIdle
    /\ UninstallIdle
    /\ UpgradeIdle
    /\ SettingsIdle
    /\ DelegateIdle

ToolchainSpecNext ==
    ToolchainNext
      /\ UNCHANGED <<installVars, selVars, resolveVars, fetchVars, docVars, bumpVars,
                     wsVars, runVars, manifestVars, selfVars, uninstallVars,
                     upgradeVars, settingsVars, delegateVars>>

SpecToolchain == ToolchainSpecInit /\ [][ToolchainSpecNext]_vars

SettingsSpecInit ==
    /\ SettingsInit
    /\ InstallIdle
    /\ SelIdle
    /\ ResolveIdle
    /\ FetchIdle
    /\ DocIdle
    /\ BumpIdle
    /\ WorkspaceIdle
    /\ RunIdle
    /\ ManifestIdle
    /\ SelfUpdateIdle
    /\ UninstallIdle
    /\ UpgradeIdle
    /\ ToolchainIdle
    /\ DelegateIdle

SettingsSpecNext ==
    SettingsNext
      /\ UNCHANGED <<installVars, selVars, resolveVars, fetchVars, docVars, bumpVars,
                     wsVars, runVars, manifestVars, selfVars, uninstallVars,
                     upgradeVars, toolchainVars, delegateVars>>

SpecSettings == SettingsSpecInit /\ [][SettingsSpecNext]_vars

DelegationInit ==
    /\ DelegateInit
    /\ InstallIdle
    /\ SelIdle
    /\ ResolveIdle
    /\ FetchIdle
    /\ DocIdle
    /\ BumpIdle
    /\ WorkspaceIdle
    /\ RunIdle
    /\ ManifestIdle
    /\ SelfUpdateIdle
    /\ UninstallIdle
    /\ UpgradeIdle
    /\ ToolchainIdle
    /\ SettingsIdle

DelegationNext ==
    DelegateNext
      /\ UNCHANGED <<installVars, selVars, resolveVars, fetchVars, docVars, bumpVars,
                     wsVars, runVars, manifestVars, selfVars, uninstallVars,
                     upgradeVars, toolchainVars, settingsVars>>

SpecDelegation == DelegationInit /\ [][DelegationNext]_vars

-----------------------------------------------------------------------------
(* Claims about the install pipeline, checked under Spec *)

\* the steps of ensure_installed between the recheck and the return, which
\* download, verify and extract
InstallSection == {"download", "copy", "sums", "verify", "extract", "unpack",
                   "cleanup"}

Running(p) == pc[p] \notin {"idle", "done", "killed"}

\* C1: at most one process at a time is inside the download-verify-extract
\* section for a given version; a process that finds the lock file present
\* returns Conflict without downloading or extracting; and a process whose
\* own version has no lock file takes the lock, whatever other versions'
\* lock files exist.
C1_AtMostOneInstallPerVersion ==
    /\ \A p, q \in Procs :
         (p # q /\ pc[p] \in InstallSection /\ pc[q] \in InstallSection)
            => ver[p] # ver[q]
    /\ \A p \in Procs :
         (pc[p] = "done" /\ result[p] = "Conflict_LockHeld")
            => (~downloaded[p] /\ ~tmp[p].exists /\ ~held[p])
    /\ \A p \in Procs :
         (pc[p] = "acquire" /\ lock_name(ver[p]) \notin lockFiles)
            => ENABLED (Acquire(p) /\ pc'[p] = "recheck")

\* C1 witness: one process is inside the section for v under its lock while
\* another process has returned Conflict for the same v.
C1_Witness ==
    \E p, q \in Procs :
        /\ p # q
        /\ pc[p] \in InstallSection /\ held[p]
        /\ pc[q] = "done" /\ result[q] = "Conflict_LockHeld"
        /\ ver[q] = ver[p]

\* C2: whenever the digest of the downloaded archive differs from the digest
\* listed in the sums file, the comparison step ends ensure_installed with
\* Conflict (checksum mismatch), and the final runtime directory of that
\* version does not exist when it returns: extraction is not reached.
C2_MismatchFailsConflict ==
    [][\A p \in Procs :
          (/\ pc[p] = "verify"
           /\ pc'[p] \notin {"verify", "killed"}
           /\ expected[p] # sha256_file(downloads[ver[p]]))
             => (/\ pc'[p] = "done"
                 /\ result'[p] = "Conflict_ChecksumMismatch"
                 /\ ~runtimeDir'[ver[p]].exists
                 /\ ~tmp'[p].exists)]_vars

\* C2 witness: an install has returned the checksum-mismatch Conflict after
\* downloading, and the runtime directory is absent.
C2_Witness ==
    \E p \in Procs :
        /\ pc[p] = "done" /\ result[p] = "Conflict_ChecksumMismatch"
        /\ downloaded[p]
        /\ expected[p] # sha256_file(downloads[ver[p]])
        /\ ~runtimeDir[ver[p]].exists

\* C3 as stated: in every reachable state the final runtime directory either
\* does not exist or holds the complete extracted runtime.
C3_AbsentOrComplete ==
    \A v \in Versions : runtimeDir[v] \in {NoDir, Dir(ArchiveFiles)}

\* C3 amended: the final runtime directory comes into existence only in full
\* (no step takes it from absent to partial), and an existing directory never
\* gains or changes entries: it can only lose them, which is the recursive
\* delete of remove_runtime.
C3_AppearsOnlyComplete ==
    [][\A v \in Versions :
          /\ ~runtimeDir[v].exists
               => runtimeDir'[v] \in {NoDir, Dir(ArchiveFiles)}
          /\ (runtimeDir[v].exists /\ runtimeDir'[v].exists)
               => runtimeDir'[v].files \subseteq runtimeDir[v].files]_vars

\* C3 witness: an install was killed while unpacking (its temp directory is
\* partial) and the final runtime directory of that version is absent.
C3_Witness ==
    \E p \in Procs :
        /\ pc[p] = "killed"
        /\ tmp[p].exists
        /\ tmp[p].files \notin {{}, ArchiveFiles}
        /\ ~runtimeDir[ver[p]].exists

\* C4: the lock file does not outlive the operation that created it: every
\* lock file present belongs to an install that is still running, so a later
\* ensure_installed of that version is not refused with Conflict for ever.
C4_LockScopedToOperation ==
    \A v \in Versions :
        lock_name(v) \in lockFiles
           => \E p \in Procs : Running(p) /\ held[p] /\ ver[p] = v

C27_AlreadyInstalledShortCircuits ==
    /\ [](\A p \in Procs :
            pc[p] \in {"download", "copy", "sums", "verify", "unpack"}
               => ~runtimeDir[ver[p]].exists)
    /\ [][\A p \in Procs :
            (/\ pc[p] \in {"fast_path", "recheck"}
             /\ pc'[p] \notin {pc[p], "killed"}
             /\ runtimeDir[ver[p]].exists)
               => (/\ pc'[p] = "done"
                   /\ result'[p] = "AlreadyInstalled"
                   /\ ~downloaded'[p]
                   /\ downloads' = downloads
                   /\ runtimeDir' = runtimeDir
                   /\ pc[p] = "fast_path" => lockFiles' = lockFiles)]_vars

\* one call installed the version and another call for the same version,
\* which had found it missing at first, holds the lock and finds it
C27_Witness ==
    \E p, q \in Procs :
        /\ p # q
        /\ ver[p] = ver[q]
        /\ pc[q] = "done" /\ result[q] = "Installed"
        /\ pc[p] = "done" /\ result[p] = "AlreadyInstalled"
        /\ ~downloaded[p]
        /\ runtimeDir[ver[p]] = Dir(ArchiveFiles)

\* C34: a lock file is removed only by the process that created it: a step
\* that takes a lock file away is a step of the call that holds the lock of
\* that version, and a call refused because the lock file exists leaves the
\* file in place.
C34_OnlyCreatorRemovesLock ==
    [][/\ \A v \in Versions :
            (lock_name(v) \in lockFiles /\ lock_name(v) \notin lockFiles')
               => \E p \in Procs : held[p] /\ ver[p] = v /\ ~held'[p]
       /\ \A p \in Procs :
            (pc[p] = "acquire" /\ pc'[p] = "done"
               /\ lock_name(ver[p]) \in lockFiles)
               => lock_name(ver[p]) \in lockFiles']_vars

\* a call was refused while another call holds the lock of the same version,
\* and the lock file is still there
C34_Witness ==
    \E p, q \in Procs :
        /\ p # q
        /\ ver[p] = ver[q]
        /\ pc[q] = "done" /\ result[q] = "Conflict_LockHeld"
        /\ held[p] /\ pc[p] \in {"recheck", "download", "copy", "sums"}
        /\ lock_name(ver[p]) \in lockFiles

-----------------------------------------------------------------------------
(* Claims about overrides and the resolver, checked under SpecResolver *)

\* p is q or a directory above q
AtOrAbove(p, q) == \E n \in 0..Len(q) : p = SubSeq(q, 1, n)

\* the paths with an override set that are q or above q
StoredPrefixes(q) == {p \in Paths : ovSet[p].some /\ AtOrAbove(p, q)}

\* the longest of them
LongestStoredPrefix(q) ==
    CHOOSE p \in StoredPrefixes(q) : \A r \in StoredPrefixes(q) : Len(r) <= Len(p)

\* index lets selector string s resolve, given the linked names
Resolves(s, index, names) ==
    /\ parse(s).ok
    /\ LET sel == parse(s).value IN
         CASE sel.kind = "Version" -> TRUE
           [] sel.kind = "Channel" ->
                /\ index.ok
                /\ IF sel.channel = "Lts"
                     THEN \E i \in DOMAIN index.value : is_lts(index.value[i])
                     ELSE index.value # <<>>
           [] sel.kind = "LinkedName" -> sel.name \in names

\* C5: resolve_with_precedence selects by strict precedence: the explicit
\* selector whenever given, otherwise the override matching the path whenever
\* one exists, otherwise the settings default, otherwise NotFound; the
\* selector of the chosen level alone decides the result, and the source tag
\* names that level.
C5_StrictPrecedence ==
    lastCall.op = "resolve_with_precedence" =>
      LET q == canonical_or_absolute_path(lastCall.path)
          r == lastCall.result
          level == IF lastCall.explicit.some THEN "Explicit"
                   ELSE IF StoredPrefixes(q) # {} THEN "Override"
                   ELSE IF defaultSel.some THEN "Default"
                   ELSE "none"
          used == CASE level = "Explicit" -> lastCall.explicit.value
                    [] level = "Override" -> ovSet[LongestStoredPrefix(q)].value
                    [] level = "Default" -> defaultSel.value
                    [] level = "none" -> <<>>
      IN  IF level = "none" THEN r = Err("NotFound")
          ELSE /\ r.ok <=> Resolves(used, lastCall.index, linked)
               /\ r.ok => /\ r.value.source = level
                          /\ r.value.selector = parse(used).value

\* C5 witness: called without an explicit selector from a path that has an
\* override while a default is set, the override is used.
C5_Witness ==
    /\ lastCall.op = "resolve_with_precedence"
    /\ ~lastCall.explicit.some
    /\ defaultSel.some
    /\ StoredPrefixes(canonical_or_absolute_path(lastCall.path)) # {}
    /\ lastCall.result.ok
    /\ lastCall.result.value.source = "Override"

\* C6: resolve_for_path(q) returns the entry of the longest path with an
\* override set that is q or above q, with the selector last set for it, and
\* no entry when no such path has an override.
C6_LongestPrefixEntry ==
    lastCall.op = "resolve_for_path" =>
      LET q == canonical_or_absolute_path(lastCall.path) IN
        IF StoredPrefixes(q) = {} THEN lastCall.result = None
        ELSE lastCall.result =
               Some(OverrideEntry(path_to_string(LongestStoredPrefix(q)),
                                  ovSet[LongestStoredPrefix(q)].value))

\* C6 witness: q lies strictly below two paths with an override, and the
\* entry of the longer one is returned.
C6_Witness ==
    /\ lastCall.op = "resolve_for_path"
    /\ LET q == canonical_or_absolute_path(lastCall.path) IN
         /\ Cardinality(StoredPrefixes(q)) >= 2
         /\ q \notin StoredPrefixes(q)
         /\ lastCall.result.some
         /\ path_from_string(lastCall.result.value.path) = LongestStoredPrefix(q)

\* the entries stored for a canonical path
EntriesFor(p) ==
    {i \in DOMAIN ovEntries : path_from_string(ovEntries[i].path) = p}

\* C28: after any sequence of set and unset from the empty document there is
\* at most one entry per canonical path: a path has exactly one entry,
\* with the selector of the last set for it, when it was set and not unset
\* since, and no entry otherwise; a set or unset for one path changes the
\* selector of no other path.
C28_OneEntryPerPath ==
    \A p \in Paths :
        IF ovSet[p].some
          THEN /\ Cardinality(EntriesFor(p)) = 1
               /\ \A i \in EntriesFor(p) : ovEntries[i].selector = ovSet[p].value
          ELSE EntriesFor(p) = {}

\* /a/a was set from the working directory /a as the relative path a, and
\* / holds another selector
C28_Witness ==
    /\ Len(ovEntries) = 2
    /\ ovEntries[1] = OverrideEntry(path_to_string(<<>>), <<"l", "t", "s">>)
    /\ ovEntries[2] = OverrideEntry(path_to_string(<< <<"a">>, <<"a">> >>), V22)

-----------------------------------------------------------------------------
(* Claims about the persisted documents, checked under SpecDocuments *)

\* a complete document written by exactly one writer
CompleteDocument(content) ==
    /\ content.exists
    /\ Len(content.data) = DocChunks
    /\ \E d \in 1..MaxWrites :
         \A i \in 1..DocChunks : content.data[i] = Chunk(d, i)

\* C7: a reader of the settings document, the overrides document or the
\* release-index cache, running concurrently with writers, observes either
\* no document yet or a complete document written by exactly one writer;
\* never an empty, truncated or mixed one.
C7_ReadersSeeCompleteDocuments ==
    observed.content.exists => CompleteDocument(observed.content)

-----------------------------------------------------------------------------
(* Claims about the release index, checked under SpecReleaseIndex *)

\* the cache file found at the start decodes, has schema version 1 and a
\* timestamp that is not in the future
StartUsable ==
    /\ fStart.cache.exists
    /\ fStart.cache.decodes
    /\ fStart.cache.schema_version = 1
    /\ fStart.cache.fetched_at_epoch_seconds <= fStart.now

StartFresh ==
    /\ StartUsable
    /\ fStart.now - fStart.cache.fetched_at_epoch_seconds <= ttl

StartStale ==
    /\ StartUsable
    /\ fStart.now - fStart.cache.fetched_at_epoch_seconds > ttl

\* every request of this fetch_index failed
AllAttemptsFailed ==
    /\ fResponses # <<>>
    /\ \A i \in DOMAIN fResponses : fResponses[i] # "ok"

\* every request failed in transport or with a non-success status
AllAttemptsRefused ==
    /\ fResponses # <<>>
    /\ \A i \in DOMAIN fResponses :
         fResponses[i] \in {"bad_status", "transport_error"}

\* C8: when the cache file decodes, has schema version 1 and a timestamp
\* fetched_at <= now with now - fetched_at <= TTL, fetch_index returns exactly
\* the cached entries and sends no HTTP request.
C8_FreshCacheNoRequest ==
    (fPc = "done" /\ StartFresh)
       => (fResult = Ok(fStart.cache.entries) /\ httpCalls = 0)

\* C8 witness: a fetch_index ended on a cache exactly TTL seconds old.
C8_Witness ==
    /\ fPc = "done"
    /\ StartFresh
    /\ fStart.now - fStart.cache.fetched_at_epoch_seconds = ttl
    /\ fResult.ok

\* C9 as stated: with a stale valid cache and every attempt failing the stale
\* entries are returned after exactly 3 requests; with no usable cache and
\* every attempt failing the Network error is returned after exactly 3.
C9_ThreeRequestsThenFallback ==
    (fPc = "done" /\ AllAttemptsFailed) =>
       /\ httpCalls = 3
       /\ StartStale => fResult = Ok(fStart.cache.entries)
       /\ ~StartUsable => fResult = Err("Network")

\* C9 amended: the fallback is as stated whenever every attempt fails; the
\* number of requests is exactly 3 when every attempt fails in transport or
\* with a non-success status, while an attempt answered with a success status
\* and an undecodable body is the last one, after 1 to 3 requests.
C9_FallbackAfterRefusals ==
    (fPc = "done" /\ AllAttemptsFailed) =>
       /\ StartStale => fResult = Ok(fStart.cache.entries)
       /\ ~StartUsable => fResult = Err("Network")
       /\ AllAttemptsRefused => httpCalls = 3
       /\ ~AllAttemptsRefused =>
            /\ httpCalls = Len(fResponses)
            /\ httpCalls \in 1..3
            /\ fResponses[httpCalls] = "bad_body"

\* C9 witness: three refused requests on a stale cache, and the stale entries
\* returned.
C9_Witness ==
    /\ fPc = "done"
    /\ StartStale
    /\ AllAttemptsRefused
    /\ httpCalls = 3
    /\ fResult = Ok(fStart.cache.entries)

\* C29: a cache file that does not decode, has a schema version other than
\* 1, or carries a timestamp later than now is a miss: fetch_index goes to
\* the network, returns entries only from a successful response, never the
\* entries of that file, and returns the Network error when every request
\* fails.
C29_UnusableCacheIsMiss ==
    (fPc = "done" /\ fStart.cache.exists /\ ~StartUsable)
       => /\ httpCalls >= 1
          /\ fResult.ok => fResponses[Len(fResponses)] = "ok"
          /\ fStart.cache.entries # <<>> => fResult # Ok(fStart.cache.entries)
          /\ AllAttemptsFailed => fResult = Err("Network")

\* a fetch_index that found a payload of schema version 2 and whose three
\* requests were refused has returned the Network error
C29_Witness ==
    /\ fPc = "done"
    /\ fStart.cache.decodes
    /\ fStart.cache.schema_version = 2
    /\ fStart.cache.fetched_at_epoch_seconds <= fStart.now
    /\ AllAttemptsRefused
    /\ fResult = Err("Network")

\* the last fetch_index went to the network and its last request succeeded
Refreshed ==
    /\ fPc = "done"
    /\ fResponses # <<>>
    /\ fResponses[Len(fResponses)] = "ok"

\* the refresh wrote the cache: the file is the fetched entries under schema
\* version 1
CacheRewritten ==
    /\ Refreshed
    /\ cacheFile.exists
    /\ cacheFile.decodes
    /\ cacheFile.schema_version = 1
    /\ cacheFile.entries = fResult.value

\* a fetch_index that starts now finds the file within the TTL and returns
\* the entries of the refresh without a request
NextFetchIsHit ==
    [][(/\ CacheRewritten
        /\ fetches' = fetches + 1
        /\ now - cacheFile.fetched_at_epoch_seconds <= ttl)
          => (/\ fPc' = "done"
              /\ fResult' = fResult
              /\ httpCalls' = 0)]_vars

\* C30 as stated: a successful refresh returns the entries whether or not
\* the cache could be written; a written cache holds the fetched entries
\* with schema version 1 and a timestamp not earlier than that of the file
\* it replaces, and the next fetch_index within the TTL returns the same
\* entries without a request.
C30_RefreshRewritesCache ==
    /\ [](Refreshed =>
            /\ fResult.ok
            /\ cacheFile # fStart.cache =>
                 /\ CacheRewritten
                 /\ (fStart.cache.exists /\ fStart.cache.decodes) =>
                      cacheFile.fetched_at_epoch_seconds
                        >= fStart.cache.fetched_at_epoch_seconds)
    /\ NextFetchIsHit

\* C30, amended: the timestamp written is the time at which the fetch
\* started, which is not earlier than the timestamp of a replaced file that
\* was usable; a replaced file with a timestamp in the future is followed
\* by an earlier one.
C30_RefreshStampsStartTime ==
    /\ [](Refreshed =>
            /\ fResult.ok
            /\ cacheFile # fStart.cache =>
                 /\ CacheRewritten
                 /\ cacheFile.fetched_at_epoch_seconds = fStart.now
                 /\ StartUsable =>
                      cacheFile.fetched_at_epoch_seconds
                        >= fStart.cache.fetched_at_epoch_seconds)
    /\ NextFetchIsHit

\* a refresh replaced a stale cache, and the fetch_index after it returned
\* the same entries from the file without a request
C30_Witness ==
    /\ fPc = "done"
    /\ fetches = 2
    /\ httpCalls = 0
    /\ fStart.cache = CachePayload(1, fStart.cache.fetched_at_epoch_seconds, IndexNew)
    /\ fStart.cache.fetched_at_epoch_seconds >= 1
    /\ fResult = Ok(IndexNew)

-----------------------------------------------------------------------------
(* Claims about the selector grammar, checked under SpecSelector *)

\* C10: for every parseable selector string s, parsing the stable identifier
\* of parse(s) yields the same selector: parse(parse(s).stable_id()) = parse(s).
C10_StableIdRoundTrip ==
    (selPc = "done" /\ selParsed.ok) => selReparsed = selParsed

\* C10 witness: a version written without the leading v and with a
\* prerelease part went through the round trip; its identifier differs from
\* the string given.
C10_Witness ==
    /\ selPc = "done"
    /\ selParsed.ok
    /\ selParsed.value.kind = "Version"
    /\ selParsed.value.version.pre # <<>>
    /\ selId # selInput
    /\ selReparsed.ok

-----------------------------------------------------------------------------
(* Claims about bump_version, checked under SpecBump *)

\* semver precedence of two prerelease identifiers: numeric ones by value,
\* a numeric one below an alphanumeric one, alphanumeric ones in ASCII order
PreIdentLess(a, b) ==
    IF (\A i \in DOMAIN a : a[i] \in Digit)
      THEN IF (\A i \in DOMAIN b : b[i] \in Digit)
             THEN DigitsToNat(a) < DigitsToNat(b)
             ELSE TRUE
      ELSE IF (\A i \in DOMAIN b : b[i] \in Digit)
             THEN FALSE
             ELSE StringLess(a, b)

\* semver precedence of two lists of prerelease identifiers: the first
\* difference decides, and a longer list is above its prefix
RECURSIVE PreIdentsLess(_, _)
PreIdentsLess(as, bs) ==
    IF as = <<>> THEN bs # <<>>
    ELSE IF bs = <<>> THEN FALSE
    ELSE IF Head(as) = Head(bs) THEN PreIdentsLess(Tail(as), Tail(bs))
    ELSE PreIdentLess(Head(as), Head(bs))

\* semver precedence of two prereleases: a release is above every prerelease
PrereleaseLess(a, b) ==
    IF a = <<>> THEN FALSE
    ELSE IF b = <<>> THEN TRUE
    ELSE PreIdentsLess(SplitOn(a, "."), SplitOn(b, "."))

\* semver precedence: v is strictly below w (build metadata is ignored)
VersionLess(v, w) ==
    \/ v.major < w.major
    \/ v.major = w.major /\ v.minor < w.minor
    \/ v.major = w.major /\ v.minor = w.minor /\ v.patch < w.patch
    \/ /\ v.major = w.major /\ v.minor = w.minor /\ v.patch = w.patch
       /\ PrereleaseLess(v.pre, w.pre)

\* C11: a successful bump_version(v, level, preid) returns a version strictly
\* greater than v under semver precedence, for every version and every level.
C11_BumpStrictlyGreater ==
    (bPc = "done" /\ bResult.ok) => VersionLess(bCurrent, bResult.value)

-----------------------------------------------------------------------------
(* Claims about the workspace graph.                                         *)

\* the packages of selected reached from a package along one or more
\* dependency edges that stay inside selected
RECURSIVE ReachedWithin(_, _, _, _)
ReachedWithin(dependencies, selected, reached, steps) ==
    IF steps = 0 THEN reached
    ELSE ReachedWithin(
           dependencies, selected,
           reached \cup (UNION {dependencies[m] : m \in reached} \cap selected),
           steps - 1)

DependsOnWithin(dependencies, selected, name) ==
    ReachedWithin(dependencies, selected, dependencies[name] \cap selected,
                  Cardinality(selected))

\* the dependencies restricted to selected contain a cycle
CyclicWithin(dependencies, selected) ==
    \E name \in selected : name \in DependsOnWithin(dependencies, selected, name)

\* C12: when the dependencies restricted to the selected set have no cycle,
\* topological_order returns every selected package exactly once, each after
\* all of its selected dependencies; when they have a cycle it fails with
\* Conflict.
C12_TopologicalOrder ==
    tPc = "done" =>
      IF CyclicWithin(wsDependencies, tSelected)
        THEN tResult = Err("Conflict")
        ELSE /\ tResult.ok
             /\ Len(tResult.value) = Cardinality(tSelected)
             /\ {tResult.value[i] : i \in DOMAIN tResult.value} = tSelected
             /\ \A i, j \in DOMAIN tResult.value :
                  tResult.value[j] \in wsDependencies[tResult.value[i]] => j < i

\* an order of three packages where a dependency outside the selected set and
\* a tie between ready packages both occur
C12_Witness ==
    /\ tPc = "done"
    /\ tResult.ok
    /\ tSelected = {"app", "cli"}
    /\ wsDependencies["app"] = {"cli", "core"}
    /\ tResult.value = <<"cli", "app">>

\* a cycle inside the selected set, refused
C12_WitnessCycle ==
    /\ tPc = "done"
    /\ tResult = Err("Conflict")
    /\ tSelected = {"app", "cli"}
    /\ "cli" \in wsDependencies["app"]
    /\ "app" \in wsDependencies["cli"]

\* C13: changed_packages returns every member when some changed path is, after
\* normalization, a global-impact file, whatever the other paths and
\* include_dependents are; otherwise its result contains every package whose
\* directory is a prefix of some normalized changed path.
C13_GlobalImpactOrDirectMatches ==
    wsCall.op = "changed_packages" =>
      IF \E path \in wsCall.paths :
           /\ normalize_relative_path(path).some
           /\ normalize_relative_path(path).value \in GLOBAL_IMPACT_FILES
        THEN wsCall.result = PackageNames
        ELSE \A name \in PackageNames :
               (\E path \in wsCall.paths :
                  /\ normalize_relative_path(path).some
                  /\ starts_with(normalize_relative_path(path).value,
                                 directory_relative_path(name)))
                 => name \in wsCall.result

\* a lock file written with a leading "./" next to a path of no package, in a
\* workspace without dependencies, dependents disabled
C13_Witness ==
    /\ wsCall.op = "changed_packages"
    /\ wsCall.paths = {RawPath(FALSE, <<".", "Cargo.lock">>),
                       RawPath(FALSE, <<"docs", "readme">>)}
    /\ ~wsCall.include_dependents
    /\ \A n \in PackageNames : wsDependents[n] = {}
    /\ wsCall.result = PackageNames

\* a path under a nested package matches the package and the one around it
C13_WitnessDirect ==
    /\ wsCall.op = "changed_packages"
    /\ wsCall.paths = {RawPath(TRUE, <<"repo", "crates", "app", "cli", "src">>),
                       RawPath(TRUE, <<"other", "Cargo.toml">>)}
    /\ ~wsCall.include_dependents
    /\ wsCall.result = {"app", "cli"}

\* C14: changed_packages(paths, true) is the transitive closure, over the
\* dependents map, of changed_packages(paths, false): it contains the direct
\* result, it is closed under "is a dependent of", and it holds no package
\* that cannot be reached from the direct result.
C14_DependentsClosure ==
    (wsCall.op = "changed_packages" /\ wsCall.include_dependents) =>
      /\ changed_packages(wsDependents, wsCall.paths, FALSE) \subseteq wsCall.result
      /\ \A n \in wsCall.result : wsDependents[n] \subseteq wsCall.result
      /\ wsCall.result \subseteq
           ReachedWithin(wsDependents, PackageNames,
                         changed_packages(wsDependents, wsCall.paths, FALSE),
                         Cardinality(PackageNames))

\* a change in core reaches cli through app only
C14_Witness ==
    /\ wsCall.op = "changed_packages"
    /\ wsCall.include_dependents
    /\ wsCall.paths = {RawPath(FALSE, <<"crates", "core", "src">>)}
    /\ wsDependents["core"] = {"app"}
    /\ wsDependents["app"] = {"cli"}
    /\ wsCall.result = PackageNames

-----------------------------------------------------------------------------
(* Claims about the runs of bump and publish.                                *)

\* C15: the publish attempts of a run come one package at a time and in
\* topological order: no attempt for a package comes before an attempt for
\* one of its dependencies, and the attempts of a package are not separated
\* by an attempt for another package.
C15_PublishInTopologicalOrder ==
    /\ \A i, j \in DOMAIN pLog :
         pLog[j].package \in rDependencies[pLog[i].package] => j < i
    /\ \A i, j, k \in DOMAIN pLog :
         (i < j /\ j < k /\ pLog[i].package = pLog[k].package)
           => pLog[j].package = pLog[i].package
    /\ \A i \in DOMAIN pLog : pLog[i].package \in rTargets \cap rPublishable

\* core is attempted twice, and app, which depends on it, after that
C15_Witness ==
    /\ Len(pLog) = 3
    /\ rDependencies = ChainGraph
    /\ pLog[1].package = "core"
    /\ pLog[2].package = "core"
    /\ pLog[3].package = "app"

\* the attempt is the last one of its package in the log
LastAttempt(i) == \A j \in DOMAIN pLog : j > i => pLog[j].package # pLog[i].package

FailedWith(output, kind) ==
    output.spawned /\ ~output.success /\ classify_publish_failure(output) = kind

\* C16: a package gets at most three attempts; an attempt after the first
\* follows a failure of the same package classified as index lag; a success
\* on attempt n is recorded as published with attempts = n; an index-lag
\* failure on the third attempt is recorded as failed with attempts = 3; an
\* already-published failure is recorded as skipped and any other failure as
\* failed, each without a further attempt for the package.
C16_PublishAttempts ==
    \A i \in DOMAIN pLog :
      /\ pLog[i].attempt \in 1..3
      /\ pLog[i].attempt > 1 =>
           /\ i > 1
           /\ pLog[i - 1].package = pLog[i].package
           /\ pLog[i - 1].attempt = pLog[i].attempt - 1
           /\ FailedWith(pLog[i - 1].output, "IndexNotReady")
      /\ (pLog[i].output.spawned /\ pLog[i].output.success) =>
           /\ \E k \in DOMAIN pPublished :
                pPublished[k] = [name |-> pLog[i].package,
                                 attempts |-> pLog[i].attempt]
           /\ LastAttempt(i)
      /\ (FailedWith(pLog[i].output, "IndexNotReady") /\ pLog[i].attempt = 3) =>
           /\ \E k \in DOMAIN pFailed :
                pFailed[k] = [name |-> pLog[i].package, attempts |-> 3]
           /\ LastAttempt(i)
      /\ FailedWith(pLog[i].output, "AlreadyPublished") =>
           /\ \E k \in DOMAIN pSkipped :
                pSkipped[k] = [name |-> pLog[i].package,
                               reason |-> "already-published"]
           /\ LastAttempt(i)
      /\ FailedWith(pLog[i].output, "Other") =>
           /\ \E k \in DOMAIN pFailed :
                pFailed[k] = [name |-> pLog[i].package,
                              attempts |-> pLog[i].attempt]
           /\ LastAttempt(i)

\* one package published on its second attempt, the next one failed after
\* three index-lag failures
C16_Witness ==
    /\ rPc = "exited"
    /\ Len(pLog) = 5
    /\ pPublished = <<[name |-> pLog[1].package, attempts |-> 2]>>
    /\ pFailed = <<[name |-> pLog[5].package, attempts |-> 3]>>
    /\ FailedWith(pLog[5].output, "IndexNotReady")

\* C17 as stated: publish exits with 0 exactly when no package was recorded
\* as failed, and with 1 otherwise.
C17_ExitZeroIffNoFailure ==
    (rPc = "exited" /\ rCommand = "publish") =>
      /\ rExit = 0 <=> pFailed = <<>>
      /\ rExit \in {0, 1}

\* C17, amended: a publish run that reaches its summary exits with 0 exactly
\* when no package was recorded as failed and with 1 otherwise, whatever was
\* skipped; a run that ends with an error exits with the code of the error.
C17_SummaryExitCode ==
    (rPc = "exited" /\ rCommand = "publish") =>
      IF rError = "none"
        THEN /\ rExit = 0 <=> pFailed = <<>>
             /\ rExit \in {0, 1}
        ELSE rExit = exit_code(rError) /\ rExit # 0

\* a run with a non-publishable and an already-published package and no
\* failure ends with 0
C17_Witness ==
    /\ rPc = "exited"
    /\ rCommand = "publish"
    /\ rError = "none"
    /\ rExit = 0
    /\ \E k \in DOMAIN pSkipped : pSkipped[k].reason = "non-publishable"
    /\ \E k \in DOMAIN pSkipped : pSkipped[k].reason = "already-published"
    /\ pPublished # <<>>

\* C18: bump and publish started on a dirty working tree without allow_dirty
\* end with Conflict and have done nothing but ask git for the status: no
\* metadata load, no manifest write, no commit or tag, no publish command;
\* with allow_dirty the status is never asked for.
C18_DirtyTreeFailsBeforeAnyEffect ==
    /\ (rTreeAtStart = "dirty" /\ ~rAllowDirty) =>
         /\ rPc \in {"preflight", "exited"}
         /\ rPc = "exited" => (rError = "Conflict" /\ rExit = 5)
         /\ \A i \in DOMAIN rEffects : rEffects[i].kind = "git status"
         /\ pLog = <<>>
    /\ rAllowDirty => \A i \in DOMAIN rEffects : rEffects[i].kind # "git status"

\* a bump on a dirty tree, refused
C18_Witness ==
    /\ rCommand = "bump"
    /\ rTreeAtStart = "dirty"
    /\ ~rAllowDirty
    /\ rPc = "exited"
    /\ rError = "Conflict"

\* a publish on a dirty tree with allow_dirty, which reaches the registry
C18_WitnessAllowDirty ==
    /\ rCommand = "publish"
    /\ rTreeAtStart = "dirty"
    /\ rAllowDirty
    /\ pLog # <<>>

\* the attempt failed as index lag and attempts remain for its package
LagWithAttemptsLeft(i) ==
    /\ pLog[i].output.spawned
    /\ ~pLog[i].output.success
    /\ classify_publish_failure(pLog[i].output) = "IndexNotReady"
    /\ pLog[i].attempt < MAX_PUBLISH_ATTEMPTS

\* C31: after an index-lag failure on attempt n of a package with attempts
\* remaining the publisher sleeps 2 seconds when n = 1, 4 seconds when n = 2
\* and 8 seconds when n = 3 before the next attempt, which is the next attempt
\* of the run and is for the same package; after any other attempt it does
\* not sleep.
C31_SleepsOnlyBeforeRetry ==
    \A i \in DOMAIN pLog :
      IF LagWithAttemptsLeft(i)
        THEN /\ pLog[i].attempt = 1 => pLog[i].slept = 2
             /\ pLog[i].attempt = 2 => pLog[i].slept = 4
             /\ pLog[i].attempt = 3 => pLog[i].slept = 8
             /\ pLog[i].slept > 0
             /\ i < Len(pLog) =>
                  /\ pLog[i + 1].package = pLog[i].package
                  /\ pLog[i + 1].attempt = pLog[i].attempt + 1
        ELSE pLog[i].slept = 0

\* a package that was tried three times: 2 seconds after the first attempt, 4
\* after the second, none after the third
C31_Witness ==
    /\ Len(pLog) >= 3
    /\ pLog[1].slept = 2
    /\ pLog[2].slept = 4
    /\ pLog[3].attempt = 3
    /\ pLog[3].package = pLog[1].package
    /\ classify_publish_failure(pLog[3].output) = "IndexNotReady"
    /\ ~pLog[3].output.success
    /\ pLog[3].slept = 0

\* the working tree is asked for again after the metadata load
StatusAfterMetadata ==
    \E i, j \in DOMAIN rEffects :
      /\ i < j
      /\ rEffects[i].kind = "cargo metadata"
      /\ rEffects[j].kind = "git status"

\* C32: for bump and publish without allow_dirty the clean-tree decision is
\* taken once, before the workspace metadata is loaded: the status is not
\* asked for after the load, and a run that started on a clean tree does not
\* end with Conflict because the load left an untracked Cargo.lock (a cyclic
\* selection is the other Conflict of publish).
C32_CleanDecisionBeforeMetadata ==
    ~rAllowDirty =>
      /\ ~StatusAfterMetadata
      /\ (rTreeAtStart = "clean" /\ rTree = "dirty" /\ rPc = "exited"
            /\ rError = "Conflict") =>
           /\ rCommand = "publish"
           /\ rTargets \cap rPublishable # {}
           /\ ~topological_order(rDependencies, dependents_from(rDependencies),
                                 rTargets \cap rPublishable).ok

\* the number of records of the package in a list of the summary
Records(list, name) == Cardinality({k \in DOMAIN list : list[k].name = name})

\* every package of the order has an attempt in the log
AllAttempted ==
    \A k \in DOMAIN pOrder : \E i \in DOMAIN pLog : pLog[i].package = pOrder[k]

\* every selected package is in one of the three lists, once
RecordedOnce ==
    \A name \in rTargets :
      Records(pPublished, name) + Records(pSkipped, name)
        + Records(pFailed, name) = 1

\* C35 as stated: in a publish run that started to publish, every package of
\* the topological order is attempted at least once, and at the end every
\* selected package is recorded in exactly one of published, skipped and
\* failed, exactly once.
C35_EveryPackageAttempted ==
    (rPc = "exited" /\ rCommand = "publish" /\ pLog # <<>>) =>
      AllAttempted /\ RecordedOnce

\* C35, amended: a publish run that reaches its summary has attempted every
\* package of the topological order, also the dependents of a package it
\* recorded as failed, and has recorded every selected package in exactly one
\* of published, skipped and failed, exactly once; no package is ever recorded
\* twice; and a run that cannot start the publish command ends at once with
\* the Cargo error, with the package of that attempt in no list.
C35_SummaryCoversEveryPackage ==
    /\ (rPc = "exited" /\ rCommand = "publish" /\ rError = "none") =>
         AllAttempted /\ RecordedOnce
    /\ \A name \in PackageNames :
         Records(pPublished, name) + Records(pSkipped, name)
           + Records(pFailed, name) <= 1
    /\ (pLog # <<>> /\ ~pLog[Len(pLog)].output.spawned) =>
         /\ rPc = "exited"
         /\ rError = "Cargo"
         /\ Records(pPublished, pLog[Len(pLog)].package)
              + Records(pSkipped, pLog[Len(pLog)].package)
              + Records(pFailed, pLog[Len(pLog)].package) = 0

\* core was recorded as failed, and app, which depends on it, was attempted
\* and published afterwards
C35_Witness ==
    /\ rPc = "exited"
    /\ rError = "none"
    /\ rDependencies = ChainGraph
    /\ Records(pFailed, "core") = 1
    /\ \E i \in DOMAIN pLog : pLog[i].package = "app"
    /\ Records(pPublished, "app") = 1

-----------------------------------------------------------------------------
(* Claims about manifest rewriting.                                          *)

WrittenManifests == {mWrites[i] : i \in DOMAIN mWrites}

\* the dependency entries whose version key differs from the one read
ChangedEntries ==
    { <<n, i>> \in PackageNames \X (1..MaxManifestEntries) :
        /\ i \in DOMAIN mOriginal[n].entries
        /\ mManifests[n].entries[i].version # mOriginal[n].entries[i].version }

\* C19: apply_workspace_bump writes a manifest exactly when something in it
\* changes, and once; an entry with workspace = true stays as it was; an entry
\* already at the new version stays as it was and is not counted;
\* dependency_updates is the number of entries whose version changed and
\* updated_manifests is the set of the manifests written.
C19_WritesOnlyChanges ==
    /\ \A n \in PackageNames :
         n \in WrittenManifests <=> mManifests[n] # mOriginal[n]
    /\ Len(mWrites) = Cardinality(WrittenManifests)
    /\ \A n \in PackageNames : \A i \in DOMAIN mOriginal[n].entries :
         (\/ mOriginal[n].entries[i].workspace = "true"
          \/ /\ mOriginal[n].entries[i].name \in DOMAIN mBumped
             /\ mOriginal[n].entries[i].version
                  = Some(mBumped[mOriginal[n].entries[i].name]))
           => mManifests[n].entries[i] = mOriginal[n].entries[i]
    /\ (mPc = "done" /\ mResult.ok) =>
         /\ mResult.value.dependency_updates = Cardinality(ChangedEntries)
         /\ mResult.value.updated_manifests = WrittenManifests

\* a manifest with an entry marked workspace = true, an entry already at the
\* new version and an entry that is rewritten
C19_Witness ==
    /\ mPc = "done"
    /\ mResult.ok
    /\ mResult.value.dependency_updates = 1
    /\ mResult.value.updated_manifests = {"app"}
    /\ \E i, j, k \in DOMAIN mOriginal["app"].entries :
         /\ mOriginal["app"].entries[i].workspace = "true"
         /\ mOriginal["app"].entries[i].version = Some("1.0.0")
         /\ mOriginal["app"].entries[j].version = Some("1.1.0")
         /\ mOriginal["app"].entries[k].version = Some("^1.0")
         /\ mManifests["app"].entries[k].version = Some("1.1.0")

\* C38: apply_workspace_bump is idempotent: a second call with the same
\* bumped versions, on the manifests a successful first call has left, writes
\* no manifest and changes none, and returns an empty updated_manifests with
\* dependency_updates = 0.
C38_SecondApplyWritesNothing ==
    mCalls > 1 =>
      /\ mWrites = <<>>
      /\ mManifests = mOriginal
      /\ mUpdated = {}
      /\ mDependencyUpdates = 0
      /\ mPc = "done" =>
           (mResult.ok =>
              /\ mResult.value.updated_manifests = {}
              /\ mResult.value.dependency_updates = 0)

\* the second call has returned; the first one had rewritten the version of
\* app and the requirement ^1.0 of its target dependency on core
C38_Witness ==
    /\ mCalls = 2
    /\ mPc = "done"
    /\ mResult.ok
    /\ mBumped = [n \in {"app", "core"} |->
                    IF n = "core" THEN "1.1.0" ELSE "2.0.0"]
    /\ mManifests["app"].package_version = "2.0.0"
    /\ \E i \in DOMAIN mManifests["app"].entries :
         mManifests["app"].entries[i] =
           DependencyEntry("target.dependencies", "core", "string", "absent",
                           Some("1.1.0"))

-----------------------------------------------------------------------------
(* Claims about self update.                                                 *)

\* C20: a self update that finds the target with the SHA-256 of the source
\* reports already-up-to-date and does nothing to the target; and a self
\* update that follows a successful one, with the source unchanged, reports
\* already-up-to-date and leaves the target with the bytes of the source.
C20_SelfUpdateIdempotent ==
    /\ (suPc = "done" /\ suSourceAtStart # Absent /\ suTargetAtStart # Absent
          /\ Sha256(suTargetAtStart) = Sha256(suSourceAtStart)) =>
         /\ suStatus = "already-up-to-date"
         /\ suTargetOps = <<>>
         /\ suTarget = suTargetAtStart
    /\ (suPc = "done"
          /\ suPrevious.status \in {"updated", "already-up-to-date"}
          /\ suPrevious.source = suSourceAtStart) =>
         /\ suStatus = "already-up-to-date"
         /\ suTargetOps = <<>>
         /\ suTarget = suSource

\* the second of two runs, the first of which replaced the binary
C20_Witness ==
    /\ suPc = "done"
    /\ suRuns = 2
    /\ suPrevious.status = "updated"
    /\ suPrevious.source = suSourceAtStart
    /\ suStatus = "already-up-to-date"
    /\ suTarget = "release 2"

\* the run renamed the target to the backup path, failed to rename the staged
\* file onto the target and renamed the backup back
RolledBack ==
    /\ suPc = "done"
    /\ suTargetOps = <<"rename to backup", "rename from backup">>

\* C21 as stated: a run that rolled back returns an error with the previous
\* binary at the target, and after a successful update the target holds the
\* source bytes and there is no backup file.
C21_RollbackOrNoBackup ==
    /\ RolledBack => (suStatus = "Internal" /\ suTarget = suTargetAtStart)
    /\ (suPc = "done" /\ suStatus = "updated") =>
         (suTarget = suSourceAtStart /\ suBackup = Absent)

\* C21, amended: a run that rolled back returns an error with the previous
\* binary at the target and no backup; after a successful update the target
\* holds the source bytes, and where the target existed before, a backup
\* that is still there holds the previous binary.
C21_RollbackOrDeferredCleanup ==
    /\ RolledBack =>
         (suStatus = "Internal" /\ suTarget = suTargetAtStart
            /\ suBackup = Absent)
    /\ (suPc = "done" /\ suStatus = "updated") =>
         /\ suTarget = suSourceAtStart
         /\ suTargetAtStart # Absent => suBackup \in {Absent, suTargetAtStart}

\* release 1 is back at the target after a failed swap to release 2
C21_Witness ==
    /\ RolledBack
    /\ suSourceAtStart = "release 2"
    /\ suTargetAtStart = "release 1"
    /\ suTarget = "release 1"
    /\ suStatus = "Internal"

\* the binary the run found at the target is at the target or backup path
PreviousKept == suTargetAtStart \in {suTarget, suBackup}

\* the binary of the source is in place at the target
NewInPlace == suTarget # Absent /\ suTarget = suSourceAtStart

\* C37: in a self update that found a binary at the target, after every
\* step of the swap a complete binary is at the target or at the backup
\* path: the target holds the previous or the new binary, or it is empty and
\* the backup holds the previous one; and the previous binary disappears
\* from both paths only in a step that leaves the new one at the target.
C37_BinaryPresentThroughSwap ==
    /\ []((suPc # "idle" /\ suTargetAtStart # Absent) =>
            \/ suTarget = suTargetAtStart
            \/ NewInPlace
            \/ suTarget = Absent /\ suBackup = suTargetAtStart)
    /\ [][(suPc \notin {"idle", "done"} /\ suTargetAtStart # Absent
             /\ PreviousKept /\ ~PreviousKept') => NewInPlace']_vars

\* between the two renames: the target path is empty and the previous binary
\* is at the backup path, with the new one staged
C37_Witness ==
    /\ suPc = "rename"
    /\ suTargetAtStart \in Binaries
    /\ suTarget = Absent
    /\ suBackup = suTargetAtStart
    /\ suStaged \in Binaries
    /\ suStaged # suTargetAtStart

-----------------------------------------------------------------------------
(* Claims about self uninstall.                                              *)

\* a component that is nodeup, or begins with nodeup- or nodeup_, or ends
\* with -nodeup or _nodeup, whatever the case of its letters
NodeupOwnedName(c) ==
    \/ to_ascii_lowercase(c) = <<"n", "o", "d", "e", "u", "p">>
    \/ /\ Len(c) >= 7
       /\ \/ Take(to_ascii_lowercase(c), 6) = <<"n", "o", "d", "e", "u", "p">>
             /\ to_ascii_lowercase(c)[7] \in {"-", "_"}
          \/ Drop(to_ascii_lowercase(c), Len(c) - 6) = <<"n", "o", "d", "e", "u", "p">>
             /\ to_ascii_lowercase(c)[Len(c) - 6] \in {"-", "_"}

\* a root whose path has no component owned by nodeup
UnownedRoot(r) == \A i \in DOMAIN unPaths[r] : ~NodeupOwnedName(unPaths[r][i])

RemovesSomething ==
    \E p \in DOMAIN unDirs :
      /\ unDirs[p].exists
      /\ \/ ~unDirs'[p].exists
         \/ ~(unDirs[p].entries \subseteq unDirs'[p].entries)

\* C36: self uninstall checks all three roots before it deletes anything: a
\* step that removes something is a step of the removal loop of a run whose
\* data, cache and config root each have a component owned by nodeup, and
\* the removal loop is not entered otherwise.
C36_AllRootsCheckedBeforeRemoval ==
    [][/\ RemovesSomething =>
            /\ unPc = "remove"
            /\ \A r \in {"data_root", "cache_root", "config_root"} :
                 unPaths[r] # <<>> /\ ~UnownedRoot(r)
       /\ (unPc = "ready" /\ \E r \in DOMAIN unPaths : UnownedRoot(r)) =>
            /\ unPc' = "done"
            /\ unTargets' = <<>>
            /\ unDirs' = unDirs]_vars

\* the data and cache roots are owned by nodeup and hold artifacts, the
\* config root, checked last, is /u/home: the run was refused and the
\* artifacts are still there
C36_Witness ==
    /\ unPc = "done"
    /\ unStatus = "InvalidInput"
    /\ unPaths["data_root"] = <<<<"u">>, <<"n", "o", "d", "e", "u", "p", "-", "x">>>>
    /\ unPaths["cache_root"] = <<<<"u">>, <<"N", "o", "d", "e", "U", "p">>>>
    /\ unPaths["config_root"] = <<<<"u">>, <<"h", "o", "m", "e">>>>
    /\ DirEntry("keep.txt", FALSE, FALSE) \in unDirs[unPaths["data_root"]].entries
    /\ DirEntry("keep.txt", FALSE, FALSE) \in unDirs[unPaths["cache_root"]].entries
    /\ unRemoved = <<>>

-----------------------------------------------------------------------------
(* Claims about self upgrade-data.                                           *)

\* the document was handled by this run, every write succeeded and its
\* fields had the types of the document
Migrated(d) ==
    /\ udPc \in {"migrate", "done"}
    /\ udStatus[d] # "none"
    /\ udStatus[d] # "Internal"
    /\ udDocsAtStart[d].exists => udDocsAtStart[d].typed

\* the schema_version of a document as the statement reads it: absent is 0
VersionIs(doc, n) ==
    IF doc.version.kind = "absent" THEN n = 0 ELSE doc.version = SmallVersion(n)

\* a schema_version above 1
VersionAboveOne(doc) ==
    /\ doc.version.kind = "integer"
    /\ ~doc.version.negative
    /\ doc.version.limbs \notin {<<0, 0, 0, 0>>, <<1, 0, 0, 0>>}

\* C23: for each document, self upgrade-data writes defaults when the file
\* is absent (created), leaves a document of version 1 unwritten
\* (already-current), rewrites a document of version 0 or without version
\* as version 1 with its fields (upgraded), and rejects a document with a
\* version above 1 with InvalidInput, leaving it unchanged.
C23_UpgradeDataByVersion ==
    \A d \in {"settings", "overrides"} :
      (Migrated(d) /\ (udDocsAtStart[d].exists =>
                         udDocsAtStart[d].version.kind # "string")) =>
        IF ~udDocsAtStart[d].exists
          THEN /\ udStatus[d] = "created"
               /\ udDocs[d] = default_document(1)
        ELSE IF VersionIs(udDocsAtStart[d], 1)
          THEN /\ udStatus[d] = "already-current"
               /\ udDocs[d] = udDocsAtStart[d]
        ELSE IF VersionIs(udDocsAtStart[d], 0)
          THEN /\ udStatus[d] = "upgraded"
               /\ udDocs[d] = Document(SmallVersion(1),
                                       udDocsAtStart[d].fields, TRUE)
        ELSE IF VersionAboveOne(udDocsAtStart[d])
          THEN /\ udStatus[d] = "InvalidInput"
               /\ udDocs[d] = udDocsAtStart[d]
        ELSE TRUE

\* the document is a well-typed one at the current schema version
CurrentDocument(doc) ==
    /\ doc.exists
    /\ doc.typed
    /\ doc.version = IntegerVersion(FALSE, <<1, 0, 0, 0>>)

\* a schema_version value that is an integer above 1
IntegerAboveCurrent(version) ==
    /\ version.kind = "integer"
    /\ ~version.negative
    /\ \/ version.limbs[1] > 1
       \/ \E i \in 2 .. 4 : version.limbs[i] > 0

\* the run has rewritten the document
Rewritten(d) == udDocs[d] # udDocsAtStart[d]

\* C39: self upgrade-data is monotone and idempotent: a document it rewrites
\* gets the current schema version, never a higher one, and did not have a
\* higher one before; after a successful run both documents are current, and
\* a run that finds both documents current reports already-current for both
\* and writes nothing.
C39_UpgradeDataMonotone ==
    /\ \A d \in {"settings", "overrides"} :
         Rewritten(d) =>
           /\ udDocs[d].exists
           /\ udDocs[d].version = IntegerVersion(FALSE, <<1, 0, 0, 0>>)
           /\ udDocsAtStart[d].exists =>
                ~IntegerAboveCurrent(udDocsAtStart[d].version)
    /\ (udPc \in {"done", "idle"}
          /\ udResult \in {"upgraded", "already-current"}) =>
         \A d \in {"settings", "overrides"} : CurrentDocument(udDocs[d])
    /\ (udPc # "idle"
          /\ \A d \in {"settings", "overrides"} :
               CurrentDocument(udDocsAtStart[d])) =>
         /\ udDocs = udDocsAtStart
         /\ \A d \in {"settings", "overrides"} :
              udStatus[d] \in {"none", "already-current"}
         /\ udResult \in {"none", "already-current"}

-----------------------------------------------------------------------------
(* Claims about toolchain uninstall.                                         *)

\* every requested selector is an exact version
VersionsRequested ==
    /\ tcRequested # <<>>
    /\ \A i \in DOMAIN tcRequested : tcRequested[i] \in VersionSelectors

\* the v-prefixed form of a sample version selector
SampleCanonical(s) ==
    IF s \in {Sel100, SelV100} THEN SelV100 ELSE SelV110

\* a stored selector names the version, under either spelling
Names(stored, version) ==
    stored \in VersionSelectors /\ SampleCanonical(stored) = version

\* a requested version is the default, is named by an override, or has no
\* runtime directory
PreflightBlocked ==
    \E i \in DOMAIN tcRequested :
      \/ tcDefault.some /\ Names(tcDefault.value, SampleCanonical(tcRequested[i]))
      \/ \E s \in tcOverrides : Names(s, SampleCanonical(tcRequested[i]))
      \/ SampleCanonical(tcRequested[i]) \notin tcRuntimesAtStart

\* C24: when one of the requested versions is referenced by the default
\* selector or by an override selector, under either spelling of the
\* version, or is not installed, toolchain uninstall fails with Conflict or
\* NotFound, removes no runtime directory and does not save the settings.
C24_UninstallAllOrNothing ==
    (tcPc \in {"remove", "done"} /\ VersionsRequested /\ PreflightBlocked)
      => /\ tcPc = "done"
         /\ tcStatus \in {"Conflict", "NotFound"}
         /\ tcRuntimes = tcRuntimesAtStart
         /\ tcSaves = 0

\* v1.0.0 and v1.1.0 are installed, the default is stored as 1.0.0, and
\* uninstall of v1.1.0 and v1.0.0 was refused with both still installed
C24_Witness ==
    /\ tcPc = "done"
    /\ tcStatus = "Conflict"
    /\ tcRequested = <<SelV110, SelV100>>
    /\ tcDefault = Some(Sel100)
    /\ tcOverrides = {}
    /\ tcRuntimes = {SelV100, SelV110}

-----------------------------------------------------------------------------
(* Claims about exit codes.                                                  *)

\* C25: Conflict maps to exit code 6 in both tools: a release tool run that
\* ends with Conflict (dirty tree, dependency cycle) exits with 6, the code
\* the runtime manager gives to Conflict.
C25_ConflictExitsSix ==
    /\ NodeupErrorKind_exit_code("Conflict") = 6
    /\ (rPc = "exited" /\ rError = "Conflict") =>
         rExit = NodeupErrorKind_exit_code("Conflict")

-----------------------------------------------------------------------------
(* Claims about the settings document.                                       *)

\* the list is in ascending byte order without duplicates
SortedUnique(selectors) ==
    \A i, j \in DOMAIN selectors :
      i < j => StringLess(selectors[i], selectors[j])

\* C33: in every settings document a command has written under the current
\* schema version, tracked_selectors is sorted ascending and duplicate-free,
\* after any sequence of track_selector, default, link, toolchain uninstall
\* and self upgrade-data.
C33_TrackedSortedUnique ==
    (stOps > 0 /\ stFile.exists
       /\ stFile.schema_version = SETTINGS_SCHEMA_VERSION) =>
      SortedUnique(stFile.tracked_selectors)

-----------------------------------------------------------------------------
(* Claims about delegated processes.                                         *)

\* C40: when the delegated child of a shim dispatch or of run has run, the
\* manager exits with the exit code of the child if the child exited
\* normally, and with 1 if a signal terminated it, the signal being kept in
\* the log record only.
C40_ChildExitCodeForwarded ==
    (dgPc = "exited" /\ dgReturn.ok) =>
      /\ dgEntry \in {"dispatch", "run"}
      /\ dgStatus.code.some => dgExit = dgStatus.code.value
      /\ ~dgStatus.code.some =>
           /\ dgExit = 1
           /\ dgLogged = Some([exit_code |-> 1, signal |-> dgStatus.signal])

\* a shim whose child was terminated by signal 9: the manager exited with 1
C40_Witness ==
    /\ dgPc = "exited"
    /\ dgEntry = "dispatch"
    /\ dgReturn.ok
    /\ dgStatus = [code |-> None, signal |-> Some(9)]
    /\ dgExit = 1

\* nodeup run whose child exited with 7: the manager exited with 7
C40_WitnessExitCode ==
    /\ dgPc = "exited"
    /\ dgEntry = "run"
    /\ dgStatus = [code |-> Some(7), signal |-> None]
    /\ dgExit = 7

=============================================================================
